---- MODULE Spec2Model ----
(***************************************************************************)
(* Model of the two heuristic engines of the repository:                   *)
(*   Challenge_1a/process_pdfs.py         (PDFProcessor: title, outline)   *)
(*   Challenge_1b/process_collections.py  (MLEnhancedPDFAnalyzer: scoring, *)
(*                                         ranking)                        *)
(*                                                                         *)
(* Text is a TLA+ string; characters are its one-character substrings.     *)
(* Font sizes are integers in tenths of a point (109 is 10.9pt).  An       *)
(* average is the pair <<sum, count>>, compared exactly.  Scores are       *)
(* integers in tenths, a multiplier is a product of factors in tenths.     *)
(***************************************************************************)
EXTENDS Integers, Sequences, FiniteSets, TLC

VARIABLES
    pdf,            \* the document handed to process_single_pdf
    pc,             \* position inside process_single_pdf / extract_outline
    page_num,       \* extract_outline: index of the page being visited
    line_num,       \* extract_outline: index of the line being visited
    font_sizes,     \* extract_outline: sizes collected by the first pass
    avg_font_size,  \* extract_outline: <<sum, count>> once computed
    outline,        \* extract_outline: headings accepted so far
    title,          \* process_single_pdf: resolved title, <<>> before
    result,         \* process_single_pdf: returned dict, <<>> before
    accepted,       \* log: the lines is_likely_heading accepted, with the
                    \* font size and the level given to each
    args,           \* arguments of the function under call
    ret,            \* <<>> before the call returns, <<value>> after
    sections_pc,    \* position inside extract_sections
    doc_num,        \* extract_sections: index of the document being visited
    item_num,       \* extract_sections: index of the item being visited
    structured_content, \* extract_sections: items of the open document
    current_section,    \* extract_sections: open title, <<>> for None
    current_content,    \* extract_sections: items of the open section
    all_sections,   \* extract_sections: sections emitted so far
    collections,    \* main: the collection directories, in loop order
    collection_num, \* main: index of the collection being visited
    outputs,        \* main: the output files written, in order
    errors          \* main: the collections whose failure was logged

outlineVars == <<pdf, pc, page_num, line_num, font_sizes, avg_font_size,
                 outline, title, result, accepted>>
callVars == <<args, ret>>
segmentVars == <<sections_pc, doc_num, item_num, structured_content,
                 current_section, current_content, all_sections>>
mainVars == <<collections, collection_num, outputs, errors>>
collectionVars == <<segmentVars, mainVars>>
vars == <<pdf, pc, page_num, line_num, font_sizes, avg_font_size,
          outline, title, result, accepted, args, ret,
          sections_pc, doc_num, item_num, structured_content,
          current_section, current_content, all_sections,
          collections, collection_num, outputs, errors>>

(***************************************************************************)
(* Strings                                                                 *)
(***************************************************************************)
Ch(s, i) == SubSeq(s, i, i)

Digits == {"0", "1", "2", "3", "4", "5", "6", "7", "8", "9"}
UpperAZ == {"A", "B", "C", "D", "E", "F", "G", "H", "I", "J", "K", "L", "M",
            "N", "O", "P", "Q", "R", "S", "T", "U", "V", "W", "X", "Y", "Z"}
LowerAZ == {"a", "b", "c", "d", "e", "f", "g", "h", "i", "j", "k", "l", "m",
            "n", "o", "p", "q", "r", "s", "t", "u", "v", "w", "x", "y", "z"}
WS == {" ", "\t", "\n"}

\* index of the first character at or after i that is not in class C
RECURSIVE SkipClass(_, _, _)
SkipClass(s, i, C) ==
    IF i <= Len(s) /\ Ch(s, i) \in C THEN SkipClass(s, i + 1, C) ELSE i

RECURSIVE lstrip(_)
lstrip(s) ==
    IF Len(s) > 0 /\ Ch(s, 1) \in WS THEN lstrip(SubSeq(s, 2, Len(s))) ELSE s

RECURSIVE rstrip(_)
rstrip(s) ==
    IF Len(s) > 0 /\ Ch(s, Len(s)) \in WS
    THEN rstrip(SubSeq(s, 1, Len(s) - 1)) ELSE s

strip(s) == rstrip(lstrip(s))

\* "".join(seq)
RECURSIVE Concat(_)
Concat(seq) ==
    IF Len(seq) = 0 THEN ""
    ELSE IF Len(seq) = 1 THEN seq[1]
    ELSE LET mid == Len(seq) \div 2
         IN  Concat(SubSeq(seq, 1, mid)) \o Concat(SubSeq(seq, mid + 1, Len(seq)))

StartsWith(s, p) == Len(s) >= Len(p) /\ SubSeq(s, 1, Len(p)) = p

\* str.isupper: no lower-case letter and at least one upper-case letter
isupper(s) ==
    /\ \A i \in 1..Len(s) : Ch(s, i) \notin LowerAZ
    /\ \E i \in 1..Len(s) : Ch(s, i) \in UpperAZ

\* len(s.split()): the number of maximal runs of non-whitespace
WordCount(s) ==
    Cardinality({i \in 1..Len(s) :
        Ch(s, i) \notin WS /\ (i = 1 \/ Ch(s, i - 1) \in WS)})

(***************************************************************************)
(* PDFProcessor.heading_patterns, matched with re.match (anchored at the   *)
(* start; $ at the end of the stripped text)                               *)
(***************************************************************************)
\* the common tail  \.?\s+[A-Z][^.]*$  starting at index i
NumberedTail(s, i) ==
    LET b == IF i <= Len(s) /\ Ch(s, i) = "." THEN i + 1 ELSE i
        c == SkipClass(s, b, WS)
    IN  /\ c > b
        /\ c <= Len(s)
        /\ Ch(s, c) \in UpperAZ
        /\ \A j \in (c + 1)..Len(s) : Ch(s, j) # "."

\* ^\d+\.?\s+[A-Z][^.]*$
Pattern1(s) ==
    LET a == SkipClass(s, 1, Digits)
    IN  a > 1 /\ NumberedTail(s, a)

\* ^\d+\.\d+\.?\s+[A-Z][^.]*$
Pattern2(s) ==
    LET a == SkipClass(s, 1, Digits)
        b == SkipClass(s, a + 1, Digits)
    IN  /\ a > 1 /\ a <= Len(s) /\ Ch(s, a) = "."
        /\ b > a + 1 /\ NumberedTail(s, b)

\* ^\d+\.\d+\.\d+\.?\s+[A-Z][^.]*$
Pattern3(s) ==
    LET a == SkipClass(s, 1, Digits)
        b == SkipClass(s, a + 1, Digits)
        c == SkipClass(s, b + 1, Digits)
    IN  /\ a > 1 /\ a <= Len(s) /\ Ch(s, a) = "."
        /\ b > a + 1 /\ b <= Len(s) /\ Ch(s, b) = "."
        /\ c > b + 1 /\ NumberedTail(s, c)

\* ^[A-Z][A-Z\s]+$
Pattern4(s) ==
    /\ Len(s) >= 2 /\ Ch(s, 1) \in UpperAZ
    /\ \A j \in 2..Len(s) : Ch(s, j) \in (UpperAZ \cup WS)

\* ^[A-Z][a-z\s]+$
Pattern5(s) ==
    /\ Len(s) >= 2 /\ Ch(s, 1) \in UpperAZ
    /\ \A j \in 2..Len(s) : Ch(s, j) \in (LowerAZ \cup WS)

\* ^<word>\s+<class>   (Chapter\s+\d+, Section\s+\d+, Appendix\s+[A-Z])
PrefixPattern(s, word, C) ==
    LET a == Len(word) + 1
        b == SkipClass(s, a, WS)
    IN  StartsWith(s, word) /\ b > a /\ b <= Len(s) /\ Ch(s, b) \in C

compiled_patterns(s) ==
    \/ Pattern1(s)
    \/ Pattern2(s)
    \/ Pattern3(s)
    \/ Pattern4(s)
    \/ Pattern5(s)
    \/ PrefixPattern(s, "Chapter", Digits)
    \/ PrefixPattern(s, "Section", Digits)
    \/ PrefixPattern(s, "Appendix", UpperAZ)

(***************************************************************************)
(* PDFProcessor.is_likely_heading                                          *)
(***************************************************************************)
\* x < avg * num/den  for avg = <<sum, count>>, count > 0
BelowAvgTimes(x, avg, num, den) == x * avg[2] * den < avg[1] * num

\* len(text) < 2 or len(text) > 200
LengthFilter(text) == Len(text) < 2 \/ Len(text) > 200

\* the gate with the boundary excluded: font_size <= avg_font_size * 1.1
SizeGateRejects_exclusive(font_size, avg) ==
    ~BelowAvgTimes(avg[1] * 11, <<font_size * avg[2] * 10, 1>>, 1, 1)

\* font_size < avg_font_size * 1.1
SizeGateRejects(font_size, avg) == BelowAvgTimes(font_size, avg, 11, 10)

\* is_bold and font_size >= avg_font_size * 1.2
BoldRule(font_size, is_bold, avg) ==
    is_bold /\ ~BelowAvgTimes(font_size, avg, 12, 10)

\* text.isupper() and len(text.split()) <= 10
UpperRule(text) == isupper(text) /\ WordCount(text) <= 10

\* the patterns tried before the size gate
is_likely_heading_patterns_first(text0, font_size, is_bold, avg) ==
    LET text == strip(text0)
    IN  IF LengthFilter(text) THEN FALSE
        ELSE IF compiled_patterns(text) THEN TRUE
        ELSE IF SizeGateRejects(font_size, avg) THEN FALSE
        ELSE IF BoldRule(font_size, is_bold, avg) THEN TRUE
        ELSE IF UpperRule(text) THEN TRUE
        ELSE FALSE

is_likely_heading(text0, font_size, is_bold, avg) ==
    LET text == strip(text0)
    IN  IF LengthFilter(text) THEN FALSE
        ELSE IF SizeGateRejects(font_size, avg) THEN FALSE
        ELSE IF compiled_patterns(text) THEN TRUE
        ELSE IF BoldRule(font_size, is_bold, avg) THEN TRUE
        ELSE IF UpperRule(text) THEN TRUE
        ELSE FALSE

(***************************************************************************)
(* PDFProcessor.determine_heading_level                                    *)
(***************************************************************************)
MaxLevels == 6

ToSet(seq) == {seq[i] : i \in 1..Len(seq)}

Max(S) == CHOOSE m \in S : \A y \in S : y <= m

\* sorted(S, reverse=True)
RECURSIVE SortDesc(_)
SortDesc(S) ==
    IF S = {} THEN <<>> ELSE <<Max(S)>> \o SortDesc(S \ {Max(S)})

\* sorted_sizes[:6]
Take(seq, n) == SubSeq(seq, 1, IF Len(seq) < n THEN Len(seq) ELSE n)

\* the sizes sorted ascending and the first size the font size fits under
determine_heading_level_ascending(font_size, sizes) ==
    LET desc == SortDesc(ToSet(sizes))
        sorted_sizes == Take([i \in 1..Len(desc) |-> desc[Len(desc) + 1 - i]],
                             MaxLevels)
        hits == {i \in 1..Len(sorted_sizes) : font_size <= sorted_sizes[i]}
    IN  IF hits # {}
        THEN "H" \o ToString(CHOOSE i \in hits : \A j \in hits : i <= j)
        ELSE "H6"

\* the comparison made strict: font_size > size
determine_heading_level_strict(font_size, sizes) ==
    LET sorted_sizes == Take(SortDesc(ToSet(sizes)), MaxLevels)
        hits == {i \in 1..Len(sorted_sizes) : font_size > sorted_sizes[i]}
    IN  IF hits # {}
        THEN "H" \o ToString(CHOOSE i \in hits : \A j \in hits : i <= j)
        ELSE "H6"

\* variant: the distinct sizes in the order they were collected, not sorted
determine_heading_level_unsorted(font_size, sizes) ==
    LET first == {i \in 1..Len(sizes) : \A j \in 1..(i - 1) : sizes[j] # sizes[i]}
        unique == [k \in 1..Cardinality(first) |->
                      sizes[CHOOSE i \in first :
                                Cardinality({j \in first : j < i}) = k - 1]]
        sorted_sizes == Take(unique, MaxLevels)
        hits == {i \in 1..Len(sorted_sizes) : font_size >= sorted_sizes[i]}
    IN  IF hits # {}
        THEN "H" \o ToString(CHOOSE i \in hits : \A j \in hits : i <= j)
        ELSE "H6"

\* variant: every rank gets a label, the cut to six sizes left out
determine_heading_level_uncapped(font_size, sizes) ==
    LET sorted_sizes == SortDesc(ToSet(sizes))
        hits == {i \in 1..Len(sorted_sizes) : font_size >= sorted_sizes[i]}
    IN  IF hits # {}
        THEN "H" \o ToString(CHOOSE i \in hits : \A j \in hits : i <= j)
        ELSE "H6"

determine_heading_level(font_size, sizes) ==
    LET sorted_sizes == Take(SortDesc(ToSet(sizes)), MaxLevels)
        hits == {i \in 1..Len(sorted_sizes) : font_size >= sorted_sizes[i]}
    IN  IF hits # {}
        THEN "H" \o ToString(CHOOSE i \in hits : \A j \in hits : i <= j)
        ELSE "H6"

(***************************************************************************)
(* The document as PyMuPDF hands it over: pages of blocks; a text block    *)
(* has "lines", each a sequence of spans [text, size, flags]; an image     *)
(* block has no "lines" key.  None is <<>>, a value v is <<v>>.            *)
(***************************************************************************)
HasLines(block) == "lines" \in DOMAIN block

\* span["flags"] & 2**4
IsBoldFlag(flags) == (flags \div 16) % 2 = 1

RECURSIVE SumSeq(_)
SumSeq(seq) == IF seq = <<>> THEN 0 ELSE Head(seq) + SumSeq(Tail(seq))

RECURSIVE Flatten(_)
Flatten(seqs) == IF seqs = <<>> THEN <<>> ELSE Head(seqs) \o Flatten(Tail(seqs))

\* the lines of a page in block order, image blocks skipped
PageLines(page) ==
    Flatten([b \in 1..Len(page) |->
        IF HasLines(page[b]) THEN page[b].lines ELSE <<>>])

\* first pass over one page: every span's size, in order
PageSizes(page) ==
    LET spans == Flatten(PageLines(page))
    IN  [i \in 1..Len(spans) |-> spans[i].size]

\* the loop over line["spans"]: concatenated text, largest size, any bold
LineText(line) == Concat([i \in 1..Len(line) |-> line[i].text])

LineFontSize(line) == Max({0} \cup {line[i].size : i \in 1..Len(line)})

LineIsBold(line) == \E i \in 1..Len(line) : IsBoldFlag(line[i].flags)

(***************************************************************************)
(* PDFProcessor.extract_outline, one line of the second pass               *)
(***************************************************************************)
InOutline(ol, text, page) ==
    \E k \in 1..Len(ol) : ol[k].text = text /\ ol[k].page = page

\* the heading appended without the duplicate test
AppendHeading_always(ol, level, text, page) ==
    Append(ol, [level |-> level, text |-> text, page |-> page])

\* the outline kept as is when (text, page) is already in it
AppendHeading(ol, level, text, page) ==
    IF InOutline(ol, text, page) THEN ol
    ELSE Append(ol, [level |-> level, text |-> text, page |-> page])

\* lines 167-191 for one line of page page_num (0-based)
ClassifyOne(ol, line, pn, avg, sizes) ==
    LET line_text == strip(LineText(line))
        line_font_size == LineFontSize(line)
    IN  IF is_likely_heading(line_text, line_font_size, LineIsBold(line), avg)
        THEN AppendHeading(ol,
                 determine_heading_level(line_font_size, sizes),
                 line_text, pn + 1)
        ELSE ol

(***************************************************************************)
(* Title resolution                                                        *)
(***************************************************************************)
UpperLetters == "ABCDEFGHIJKLMNOPQRSTUVWXYZ"
LowerLetters == "abcdefghijklmnopqrstuvwxyz"

LowerCh(c) ==
    IF c \in UpperAZ
    THEN Ch(LowerLetters, CHOOSE i \in 1..26 : Ch(UpperLetters, i) = c)
    ELSE c

\* str.lower
lower(s) == Concat([i \in 1..Len(s) |-> LowerCh(Ch(s, i))])

\* str.isdigit, and re.match(r'^\d+$', s) on a stripped string
isdigit(s) == Len(s) > 0 /\ \A i \in 1..Len(s) : Ch(s, i) \in Digits

\* a or b, for Optional[str]: None and "" are falsy
OrElse(a, b) == IF a # <<>> /\ a[1] # "" THEN a ELSE b

\* the name up to its first dot
Stem_first_dot(name) ==
    LET dots == {i \in 1..Len(name) : Ch(name, i) = "."}
    IN  IF dots = {} THEN name
        ELSE SubSeq(name, 1, (CHOOSE i \in dots : \A j \in dots : i <= j) - 1)

\* pdf_path.stem: the name up to its last dot, unless that dot is the first
\* or the last character
Stem(name) ==
    LET dots == {i \in 1..Len(name) : Ch(name, i) = "."}
        i == IF dots = {} THEN 0 ELSE Max(dots)
    IN  IF i > 1 /\ i < Len(name) THEN SubSeq(name, 1, i - 1) ELSE name

\* doc.metadata is <<"error">> (the access raises), <<"none">> (no title
\* key) or <<"title", t>>
extract_title_from_metadata(doc) ==
    IF doc.metadata[1] # "title" THEN <<>>
    ELSE IF doc.metadata[2] = "" THEN <<>>
    ELSE LET t == strip(doc.metadata[2])
         IN  IF t # "" /\ Len(t) > 1 THEN <<t>> ELSE <<>>

MaxTitleBlocks == 15

\* the order sorted(..., reverse=True) gives to the indices I of keys:
\* larger key first, equal keys in their original order
RECURSIVE StableDescOrder(_, _)
StableDescOrder(keys, I) ==
    IF I = {} THEN <<>>
    ELSE LET i == CHOOSE x \in I : \A j \in I :
                      keys[j] < keys[x] \/ (keys[j] = keys[x] /\ x <= j)
         IN  <<i>> \o StableDescOrder(keys, I \ {i})

\* an ascending sort reversed: equal keys end in reverse order
SortedReverse_ties_reversed(seq, keys) ==
    LET ord == StableDescOrder([i \in 1..Len(seq) |-> keys[Len(seq) + 1 - i]],
                               1..Len(seq))
    IN  [k \in 1..Len(seq) |-> seq[Len(seq) + 1 - ord[k]]]

\* sorted(seq, key=..., reverse=True), keys[i] the key of seq[i]
SortedReverse(seq, keys) ==
    LET ord == StableDescOrder(keys, 1..Len(seq))
    IN  [k \in 1..Len(seq) |-> seq[ord[k]]]

\* a span without "text" or "size" raises KeyError where it is read
SpanHasTextAndSize(span) == {"text", "size"} \subseteq DOMAIN span

\* the title criteria of lines 79-84
IsTitleCandidate(line_text, max_size) ==
    /\ max_size > 0
    /\ Len(line_text) > 3
    /\ Len(line_text) < 300
    /\ ~isdigit(line_text)
    /\ ~PrefixPattern(lower(line_text), "page", Digits)
    /\ ~isdigit(strip(line_text))

\* the (line_text, max_size) candidates of the first 15 blocks, in order
TitleCandidates(page) ==
    LET lines == PageLines(Take(page, MaxTitleBlocks))
        all == [i \in 1..Len(lines) |->
                   [text |-> strip(LineText(lines[i])),
                    size |-> LineFontSize(lines[i])]]
        Keep(c) == IsTitleCandidate(c.text, c.size)
    IN  SelectSeq(all, Keep)

extract_title_from_first_page(doc) ==
    IF Len(doc.pages) = 0 THEN <<>>
    ELSE LET spans == Flatten(PageLines(Take(doc.pages[1], MaxTitleBlocks)))
         IN  IF \E i \in 1..Len(spans) : ~SpanHasTextAndSize(spans[i])
             THEN <<>>
             ELSE LET candidates == TitleCandidates(doc.pages[1])
                      sorted == SortedReverse(candidates,
                                  [i \in 1..Len(candidates) |->
                                      candidates[i].size])
                  IN  IF candidates # <<>> THEN <<sorted[1].text>> ELSE <<>>

\* lines 205-207
ResolvedTitle(doc, name) ==
    OrElse(extract_title_from_metadata(doc),
           OrElse(extract_title_from_first_page(doc), <<Stem(name)>>))[1]

(***************************************************************************)
(* validate_json_schema.  isinstance(x, str) is x \in STRING,              *)
(* isinstance(x, int) is x \in Int, a dict is a record and a list is a     *)
(* sequence.                                                               *)
(***************************************************************************)
\* int(s) of a string of decimal digits
RECURSIVE ParseInt(_)
ParseInt(s) ==
    IF s = "" THEN 0
    ELSE 10 * ParseInt(SubSeq(s, 1, Len(s) - 1))
         + (CHOOSE d \in 0..9 : ToString(d) = Ch(s, Len(s)))

\* lines 35-54, one outline item
ValidOutlineItem(item) ==
    /\ {"level", "text", "page"} \subseteq DOMAIN item
    /\ item.level \in STRING
    /\ item.text \in STRING
    /\ item.page \in Int
    /\ StartsWith(item.level, "H")
    /\ isdigit(SubSeq(item.level, 2, Len(item.level)))
    /\ LET level_num == ParseInt(SubSeq(item.level, 2, Len(item.level)))
       IN  ~(level_num < 1 \/ level_num > 6)

validate_json_schema(data) ==
    /\ {"title", "outline"} \subseteq DOMAIN data
    /\ data.title \in STRING
    /\ DOMAIN data.outline = 1..Len(data.outline)
    /\ \A i \in 1..Len(data.outline) : ValidOutlineItem(data.outline[i])

(***************************************************************************)
(* MLEnhancedPDFAnalyzer: keyword tables                                   *)
(***************************************************************************)
KnownPersonas == {"Travel Planner", "HR professional", "Food Contractor"}

persona_keywords(persona) ==
    CASE persona = "Travel Planner" ->
           [high_priority |-> <<"travel", "trip", "vacation", "hotel",
                "restaurant", "tourism", "destination", "itinerary",
                "attractions", "activities", "sightseeing", "accommodation">>,
            medium_priority |-> <<"culture", "history", "food", "local",
                "guide", "places", "visit", "explore", "experience">>,
            low_priority |-> <<"information", "tips", "advice",
                "recommendations">>]
      [] persona = "HR professional" ->
           [high_priority |-> <<"form", "forms", "fillable", "onboarding",
                "compliance", "employee", "HR", "human resources",
                "signature", "e-signature", "document">>,
            medium_priority |-> <<"create", "convert", "edit", "export",
                "share", "PDF", "Acrobat", "workflow">>,
            low_priority |-> <<"training", "skills", "learning", "tutorial">>]
      [] persona = "Food Contractor" ->
           [high_priority |-> <<"food", "recipe", "cooking", "menu", "dinner",
                "meal", "vegetarian", "gluten-free", "buffet", "catering",
                "ingredients">>,
            medium_priority |-> <<"preparation", "kitchen", "service",
                "dietary", "nutrition", "cuisine">>,
            low_priority |-> <<"ideas", "tips", "suggestions">>]

strong_vegetarian ==
    <<"vegetarian", "vegan", "plant-based", "meatless", "dairy-free", "tofu",
      "tempeh", "quinoa", "lentils", "chickpeas", "beans", "vegetables",
      "salad", "pasta", "rice", "cheese", "eggs">>

neutral_ingredients ==
    <<"oil", "salt", "pepper", "herbs", "spices", "garlic", "onion",
      "tomato", "flour", "water", "bread", "milk", "butter">>

non_vegetarian ==
    <<"beef", "pork", "chicken", "fish", "salmon", "tuna", "shrimp", "meat",
      "bacon", "ham", "sausage", "turkey", "lamb", "seafood">>

gluten_free_patterns ==
    <<"gluten-free", "gluten free", "rice", "quinoa", "corn", "potato",
      "almond flour", "coconut flour", "oat flour">>

contains_gluten ==
    <<"wheat", "flour", "bread", "pasta", "noodles", "soy sauce", "barley",
      "rye", "bulgur">>

(***************************************************************************)
(* Substring tests and exact fractions <<numerator, denominator>>          *)
(***************************************************************************)
\* k in t
Contains(t, k) ==
    \E i \in 1..(Len(t) - Len(k) + 1) : SubSeq(t, i, i + Len(k) - 1) = k

\* sum(1 for word in words if word in t)
CountIn(words, t) == Cardinality({i \in 1..Len(words) : Contains(t, words[i])})

\* any(word in t for word in words)
AnyIn(words, t) == \E i \in 1..Len(words) : Contains(t, words[i])

\* str.split(): the maximal runs of non-whitespace, in order
Split(s) ==
    LET starts == {i \in 1..Len(s) :
                      Ch(s, i) \notin WS /\ (i = 1 \/ Ch(s, i - 1) \in WS)}
        Nth(k) == CHOOSE i \in starts :
                      Cardinality({j \in starts : j < i}) = k - 1
        End(i) == SkipClass(s, i, {Ch(s, j) : j \in 1..Len(s)} \ WS) - 1
    IN  [k \in 1..Cardinality(starts) |-> SubSeq(s, Nth(k), End(Nth(k)))]

FracLess(a, b) == a[1] * b[2] < b[1] * a[2]
FracLeq(a, b) == a[1] * b[2] <= b[1] * a[2]
FracTimes(a, b) == <<a[1] * b[1], a[2] * b[2]>>
FracMin(a, b) == IF FracLess(b, a) THEN b ELSE a

(***************************************************************************)
(* ml_vegetarian_classifier, ml_gluten_free_classifier                     *)
(***************************************************************************)
ml_vegetarian_classifier(text) ==
    LET text_lower == lower(text)
        veg_count == CountIn(strong_vegetarian, text_lower)
        non_veg_count == CountIn(non_vegetarian, text_lower)
        neutral_count == CountIn(neutral_ingredients, text_lower)
        total_food_words == veg_count + non_veg_count + neutral_count
        veg_prob0 == <<2 * veg_count + neutral_count, 2 * total_food_words>>
        confidence0 == FracMin(<<total_food_words, 10>>, <<1, 1>>)
        explicit == AnyIn(<<"vegetarian", "vegan", "plant-based">>, text_lower)
        veg_prob1 == IF explicit
                     THEN FracMin(FracTimes(veg_prob0, <<15, 10>>), <<1, 1>>)
                     ELSE veg_prob0
        confidence1 == IF explicit
                       THEN FracMin(FracTimes(confidence0, <<12, 10>>), <<1, 1>>)
                       ELSE confidence0
        meat_methods == <<"grill", "roast", "fry", "cook", "season">>
        veg_prob2 == IF non_veg_count > 0 /\ AnyIn(meat_methods, text_lower)
                     THEN FracTimes(veg_prob1, <<3, 10>>)
                     ELSE veg_prob1
    IN  IF total_food_words = 0
        THEN [vegetarian_prob |-> <<5, 10>>, confidence |-> <<1, 10>>]
        ELSE [vegetarian_prob |-> veg_prob2, confidence |-> confidence1]

ml_gluten_free_classifier(text) ==
    LET text_lower == lower(text)
        gf_count == CountIn(gluten_free_patterns, text_lower)
        gluten_count == CountIn(contains_gluten, text_lower)
        total_gluten_words == gf_count + gluten_count
        gf_prob0 == <<gf_count, total_gluten_words>>
        confidence0 == FracMin(<<total_gluten_words, 5>>, <<1, 1>>)
        explicit == Contains(text_lower, "gluten-free")
                        \/ Contains(text_lower, "gluten free")
        gf_prob1 == IF explicit
                    THEN FracMin(FracTimes(gf_prob0, <<2, 1>>), <<1, 1>>)
                    ELSE gf_prob0
        confidence1 == IF explicit
                       THEN FracMin(FracTimes(confidence0, <<15, 10>>), <<1, 1>>)
                       ELSE confidence0
    IN  IF total_gluten_words = 0
        THEN [gluten_free_prob |-> <<5, 10>>, confidence |-> <<1, 10>>]
        ELSE [gluten_free_prob |-> gf_prob1, confidence |-> confidence1]

(***************************************************************************)
(* Relevance scores.  A base score is in tenths (1 is 0.1); a multiplier   *)
(* is in units of 0.0001 (10000 is 1.0), each factor being a number of     *)
(* tenths; a relevance score is in units of 0.00001 (10000 is 0.1).        *)
(***************************************************************************)
\* the keyword tiers and the job-specific boost, before the floor
KeywordScore(text, persona, job_description) ==
    LET text_lower == lower(text)
        job_keywords == Split(lower(job_description))
        kw == persona_keywords(persona)
    IN  30 * CountIn(kw.high_priority, text_lower)
        + 20 * CountIn(kw.medium_priority, text_lower)
        + 10 * CountIn(kw.low_priority, text_lower)
        + 20 * Cardinality({i \in 1..Len(job_keywords) :
                   /\ Len(job_keywords[i]) > 3
                   /\ Contains(text_lower, job_keywords[i])})

\* variant: the keyword score is returned as it is
base_relevance_no_floor(text, persona, job_description) ==
    IF persona \notin KnownPersonas THEN 10
    ELSE KeywordScore(text, persona, job_description)

\* _calculate_base_relevance
base_relevance(text, persona, job_description) ==
    LET score == KeywordScore(text, persona, job_description)
    IN  IF persona \notin KnownPersonas THEN 10
        ELSE IF score > 1 THEN score ELSE 1

\* variant: the factor's distance from 1.0 is added to the multiplier
Scale_additive(multiplier, f) == multiplier + (f - 10) * 1000

\* multiplier *= f/10
Scale(multiplier, f) == (multiplier * f) \div 10

VegetarianFactor_any_confidence(text, job_description) ==
    LET veg_prob == ml_vegetarian_classifier(text).vegetarian_prob
    IN  IF ~Contains(lower(job_description), "vegetarian") THEN 10
        ELSE IF FracLeq(<<7, 10>>, veg_prob) THEN 15
        ELSE IF FracLeq(veg_prob, <<3, 10>>) THEN 2
        ELSE 8

VegetarianFactor(text, job_description) ==
    LET veg_analysis == ml_vegetarian_classifier(text)
        veg_prob == veg_analysis.vegetarian_prob
        confidence == veg_analysis.confidence
    IN  IF ~Contains(lower(job_description), "vegetarian") THEN 10
        ELSE IF ~FracLess(<<3, 10>>, confidence) THEN 10
        ELSE IF FracLeq(<<7, 10>>, veg_prob) THEN 15
        ELSE IF FracLeq(veg_prob, <<3, 10>>) THEN 2
        ELSE 8

GlutenFreeFactor(text, job_description) ==
    LET gf_analysis == ml_gluten_free_classifier(text)
        gf_prob == gf_analysis.gluten_free_prob
        confidence == gf_analysis.confidence
    IN  IF ~Contains(lower(job_description), "gluten-free") THEN 10
        ELSE IF ~FracLess(<<3, 10>>, confidence) THEN 10
        ELSE IF FracLeq(<<7, 10>>, gf_prob) THEN 13
        ELSE IF FracLeq(gf_prob, <<3, 10>>) THEN 7
        ELSE 10

DinnerFactor(text, job_description) ==
    LET text_lower == lower(text)
        dinner_score ==
            CountIn(<<"dinner", "main", "sides", "entree", "course">>,
                    text_lower)
        non_dinner_score ==
            CountIn(<<"breakfast", "lunch", "snack", "appetizer">>, text_lower)
    IN  IF ~Contains(lower(job_description), "dinner") THEN 10
        ELSE IF dinner_score > non_dinner_score THEN 14
        ELSE IF non_dinner_score > dinner_score THEN 6
        ELSE 10

BuffetFactor_ungated(text, job_description) ==
    IF AnyIn(<<"buffet", "serving", "large", "quantity", "bulk",
               "crowd">>, lower(text)) THEN 12
    ELSE 10

BuffetFactor(text, job_description) ==
    IF ~Contains(lower(job_description), "buffet") THEN 10
    ELSE IF AnyIn(<<"buffet", "serving", "large", "quantity", "bulk",
                    "crowd">>, lower(text)) THEN 12
    ELSE 10

\* _calculate_food_contractor_ml_score
food_contractor_ml_score(text, job_description) ==
    Scale(Scale(Scale(Scale(10000,
        VegetarianFactor(text, job_description)),
        GlutenFreeFactor(text, job_description)),
        DinnerFactor(text, job_description)),
        BuffetFactor(text, job_description))

calculate_ml_relevance_score(text, persona, job_description) ==
    LET base_score == base_relevance(text, persona, job_description)
    IN  IF persona = "Food Contractor"
        THEN base_score * food_contractor_ml_score(text, job_description)
        ELSE base_score * 10000

(***************************************************************************)
(* rank_sections                                                           *)
(***************************************************************************)
DefaultLimit == 10

ScoreKeys(sections) == [i \in 1..Len(sections) |-> sections[i].relevance_score]

\* variant: the list is cut to the limit before it is sorted
rank_sections_cut_first(sections, limit) ==
    LET cut == Take(sections, limit)
    IN  SortedReverse(cut, ScoreKeys(cut))

\* variant: an ascending sort reversed, so that equal scores swap places
rank_sections_ties_reversed(sections, limit) ==
    Take(SortedReverse_ties_reversed(sections, ScoreKeys(sections)), limit)

rank_sections(sections, limit) ==
    LET sorted_sections == SortedReverse(sections, ScoreKeys(sections))
    IN  Take(sorted_sections, limit)

(***************************************************************************)
(* extract_text_with_structure and _detect_heading_ml.  A document of a    *)
(* collection is [filename, opens, pages], opens and pages standing for    *)
(* the file of that name in the collection's PDFs directory.               *)
(***************************************************************************)
\* str.istitle on ASCII text: an upper-case letter only after an uncased
\* character, a lower-case letter only after a cased one, and a cased
\* character somewhere
istitle(s) ==
    /\ \E i \in 1..Len(s) : Ch(s, i) \in UpperAZ \cup LowerAZ
    /\ \A i \in 1..Len(s) :
           /\ Ch(s, i) \in UpperAZ
                  => (i = 1 \/ Ch(s, i - 1) \notin UpperAZ \cup LowerAZ)
           /\ Ch(s, i) \in LowerAZ
                  => (i > 1 /\ Ch(s, i - 1) \in UpperAZ \cup LowerAZ)

\* the weighted features of lines 110-131 in tenths; the bullet character of
\* the startswith tuple is outside the ASCII texts of the model
detect_heading_ml(text, font_size, font_flags) ==
    LET font_size_score == IF font_size >= 120 THEN 2 ELSE 0
        bold_score == IF IsBoldFlag(font_flags) THEN 3 ELSE 0
        length_score == IF 5 <= Len(text) /\ Len(text) <= 50 THEN 2 ELSE 0
        recipe_pattern_score ==
            IF AnyIn(<<"ingredients:", "instructions:", "recipe",
                       "directions:">>, lower(text)) THEN 4 ELSE 0
        title_case_score ==
            IF /\ istitle(text)
               /\ \A p \in {"-", "1", "2", "3", "4", "5"} : ~StartsWith(text, p)
            THEN 2 ELSE 0
        no_digits_start_score ==
            IF \A i \in 1..Len(text) : i <= 5 => Ch(text, i) \notin Digits
            THEN 1 ELSE 0
        score == font_size_score + bold_score + length_score
                 + recipe_pattern_score + title_case_score
                 + no_digits_start_score
    IN  score >= 4

\* the spans of a document in reading order, each with its 1-based page
SpansWithPages(doc) ==
    Flatten([q \in 1..Len(doc.pages) |->
        [k \in 1..Len(Flatten(PageLines(doc.pages[q]))) |->
            [span |-> Flatten(PageLines(doc.pages[q]))[k], page |-> q]]])

\* the read of span["text"], or of the size or flags of a non-blank span,
\* raises KeyError
SpanRaises(span) ==
    \/ "text" \notin DOMAIN span
    \/ /\ strip(span.text) # ""
       /\ ~({"size", "flags"} \subseteq DOMAIN span)

\* extract_text_with_structure: the items of the document, or raised when
\* fitz.open or a span read fails (nothing is caught in the function)
extract_text_with_structure(doc) ==
    LET spans == SpansWithPages(doc)
        NonBlank(sp) == strip(sp.span.text) # ""
        kept == SelectSeq(spans, NonBlank)
    IN  IF ~doc.opens \/ \E i \in 1..Len(spans) : SpanRaises(spans[i].span)
        THEN [raised |-> TRUE, items |-> <<>>]
        ELSE [raised |-> FALSE,
              items |-> [i \in 1..Len(kept) |->
                  [text |-> strip(kept[i].span.text),
                   page |-> kept[i].page,
                   font_size |-> kept[i].span.size,
                   is_heading |-> detect_heading_ml(strip(kept[i].span.text),
                                                    kept[i].span.size,
                                                    kept[i].span.flags),
                   flags |-> kept[i].span.flags]]]

(***************************************************************************)
(* extract_sections: the segmenter.  None is <<>> and a value v is <<v>>.  *)
(***************************************************************************)
\* sep.join(seq)
RECURSIVE Join(_, _)
Join(seq, sep) ==
    IF Len(seq) = 0 THEN ""
    ELSE IF Len(seq) = 1 THEN seq[1]
    ELSE Join(SubSeq(seq, 1, Len(seq) - 1), sep) \o sep \o seq[Len(seq)]

\* item["is_heading"] and len(item["text"]) > 5
IsBoundary(item) == item.is_heading /\ Len(item.text) > 5

\* variant: a section is closed whenever a title is open, its body empty or
\* not
CloseSection_any_body(sections, filename, open_title, open_content, persona, job) ==
    IF open_title # <<>> /\ open_title[1] # ""
    THEN LET section_text ==
                 Join([i \in 1..Len(open_content) |->
                          open_content[i].text], " ")
             relevance_score ==
                 calculate_ml_relevance_score(
                     open_title[1] \o " " \o section_text,
                     persona, job)
         IN  IF relevance_score > 10000
             THEN Append(sections,
                      [document |-> filename,
                       section_title |-> open_title[1],
                       content |-> section_text,
                       page_number |-> IF open_content # <<>>
                                       THEN open_content[1].page ELSE 1,
                       relevance_score |-> relevance_score])
             ELSE sections
    ELSE sections

\* variant: a section whose score is 0.1 is appended too
CloseSection_at_floor(sections, filename, open_title, open_content, persona, job) ==
    IF open_title # <<>> /\ open_title[1] # ""
          /\ open_content # <<>>
    THEN LET section_text ==
                 Join([i \in 1..Len(open_content) |->
                          open_content[i].text], " ")
             relevance_score ==
                 calculate_ml_relevance_score(
                     open_title[1] \o " " \o section_text,
                     persona, job)
         IN  IF relevance_score >= 10000
             THEN Append(sections,
                      [document |-> filename,
                       section_title |-> open_title[1],
                       content |-> section_text,
                       page_number |-> open_content[1].page,
                       relevance_score |-> relevance_score])
             ELSE sections
    ELSE sections

\* lines 300-314 and 323-336: the open section is scored and, above 0.1,
\* appended, when it has a title and a body
CloseSection(sections, filename, open_title, open_content, persona, job) ==
    IF open_title # <<>> /\ open_title[1] # ""
          /\ open_content # <<>>
    THEN LET section_text ==
                 Join([i \in 1..Len(open_content) |->
                          open_content[i].text], " ")
             relevance_score ==
                 calculate_ml_relevance_score(
                     open_title[1] \o " " \o section_text,
                     persona, job)
         IN  IF relevance_score > 10000
             THEN Append(sections,
                      [document |-> filename,
                       section_title |-> open_title[1],
                       content |-> section_text,
                       page_number |-> open_content[1].page,
                       relevance_score |-> relevance_score])
             ELSE sections
    ELSE sections

\* variant: the body is not emptied when a boundary opens a section
SegmentItem_keeps_content(st, item, filename, persona, job_description) ==
    IF IsBoundary(item)
    THEN [sections |-> CloseSection(st.sections, filename, st.title,
                                    st.content, persona, job_description),
          title |-> <<item.text>>,
          content |-> st.content]
    ELSE [st EXCEPT !.content = Append(@, item)]

\* variant: the lines before the first boundary stay in the body of the
\* section that boundary opens
SegmentItem_keeps_preamble(st, item, filename, persona, job_description) ==
    IF IsBoundary(item)
    THEN [sections |-> CloseSection(st.sections, filename, st.title,
                                    st.content, persona, job_description),
          title |-> <<item.text>>,
          content |-> IF st.title = <<>> THEN st.content ELSE <<>>]
    ELSE [st EXCEPT !.content = Append(@, item)]

\* lines 296-320, one item: a boundary closes the open section and opens
\* the next, any other item joins the open body
SegmentItem(st, item, filename, persona, job_description) ==
    IF IsBoundary(item)
    THEN [sections |-> CloseSection(st.sections, filename, st.title,
                                    st.content, persona, job_description),
          title |-> <<item.text>>,
          content |-> <<>>]
    ELSE [st EXCEPT !.content = Append(@, item)]

\* the fold of SegmentItem over the items; each intermediate value is bound
\* by a CHOOSE over a singleton, which computes it once
RECURSIVE SegmentItems(_, _, _, _, _)
SegmentItems(st, items, filename, persona, job_description) ==
    IF items = <<>> THEN st
    ELSE CHOOSE last \in
             {SegmentItems(next, Tail(items), filename, persona,
                           job_description) :
                  next \in {SegmentItem(st, Head(items), filename, persona,
                                        job_description)}} : TRUE

\* lines 285-336 for one document whose items were read: title and body
\* start empty, the items are segmented, the open section is flushed
SegmentDocument(sections, filename, items, persona, job_description) ==
    CHOOSE closed \in
        {CloseSection(st.sections, filename, st.title, st.content,
                      persona, job_description) :
             st \in {SegmentItems([sections |-> sections, title |-> <<>>,
                                   content |-> <<>>],
                                  items, filename, persona,
                                  job_description)}} : TRUE

\* extract_sections as one call: the sections of the documents in order, or
\* raised when the read of a document raises
RECURSIVE extract_sections_from(_, _, _, _)
extract_sections_from(sections, documents, persona, job_description) ==
    IF documents = <<>> THEN [raised |-> FALSE, sections |-> sections]
    ELSE CHOOSE returned \in
             {IF read.raised THEN [raised |-> TRUE, sections |-> <<>>]
              ELSE CHOOSE rest \in
                       {extract_sections_from(next, Tail(documents), persona,
                                              job_description) :
                            next \in {SegmentDocument(
                                          sections, Head(documents).filename,
                                          read.items, persona,
                                          job_description)}} : TRUE :
                  read \in {extract_text_with_structure(Head(documents))}} :
             TRUE

extract_sections(documents, persona, job_description) ==
    extract_sections_from(<<>>, documents, persona, job_description)

(***************************************************************************)
(* enhance_content_for_validation, refine_content, process_collection      *)
(***************************************************************************)
ValidatorPersonas == {"Food Contractor", "Travel Planner", "HR professional"}

validator_keywords(persona) ==
    IF persona = "Food Contractor"
    THEN <<"menu", "recipe", "vegetarian", "buffet", "dinner", "corporate",
           "catering">>
    ELSE IF persona = "Travel Planner"
    THEN <<"trip", "travel", "hotel", "restaurant", "activity", "guide",
           "destination">>
    ELSE <<"form", "employee", "onboarding", "compliance", "digital",
           "signature">>

\* for word in words: if word not in enhanced.lower(): enhanced += ...
\* lowered is enhanced.lower(), carried along as the text grows
RECURSIVE AppendMissingTo(_, _, _, _, _)
AppendMissingTo(enhanced, lowered, words, before, after) ==
    IF words = <<>> THEN enhanced
    ELSE IF Contains(lowered, Head(words))
    THEN AppendMissingTo(enhanced, lowered, Tail(words), before, after)
    ELSE AppendMissingTo(enhanced \o before \o Head(words) \o after,
                         lowered \o lower(before \o Head(words) \o after),
                         Tail(words), before, after)

AppendMissing(enhanced, words, before, after) ==
    AppendMissingTo(enhanced, lower(enhanced), words, before, after)

enhance_content_for_validation(content, persona, job) ==
    LET enhanced0 ==
            IF persona = "Food Contractor"
            THEN content \o " This recipe is perfect for vegetarian menu planning. The ingredients create excellent buffet-style dinner options for corporate catering events. This menu item works well for large gatherings and addresses dietary requirements."
            ELSE content
        enhanced1 ==
            IF persona \in ValidatorPersonas
            THEN AppendMissing(enhanced0, validator_keywords(persona),
                               " This ", " solution is ideal.")
            ELSE enhanced0
        LongWord(w) == Len(w) > 3
        job_words == SelectSeq(Split(lower(job)), LongWord)
    IN  AppendMissing(enhanced1, job_words, " Perfect for ", " requirements.")

refine_content(sections) ==
    IF sections = <<>> THEN "No relevant content found."
    ELSE Join([i \in 1..Len(sections) |->
                  "From " \o sections[i].document \o " - "
                      \o sections[i].section_title \o ":\n"
                      \o Take(sections[i].content, 500) \o "..."],
              "\n\n")

\* the reads of lines 396-400 succeed
ConfigurationComplete(input_data) ==
    /\ {"challenge_info", "persona", "job_to_be_done", "documents"}
           \subseteq DOMAIN input_data
    /\ "challenge_id" \in DOMAIN input_data.challenge_info
    /\ "role" \in DOMAIN input_data.persona
    /\ "task" \in DOMAIN input_data.job_to_be_done

\* variant: ranks counted from 0
importance_rank_zero_based(i) == i - 1

\* "importance_rank": i + 1 for the section at 0-based index i, here the
\* i-th section counted from 1
importance_rank(i) == i

\* process_collection and process_collection_with_output, which differ in
\* the place of the output file only.  A collection directory is
\* [exists, input_data], the documents of input_data standing for the files
\* of its PDFs directory.
\* lines 393-411: the configuration is read, the sections are extracted and
\* ranked and the summary is made, or an exception is raised
process_collection_sections(collection_dir) ==
    LET input_data == collection_dir.input_data
    IN  IF ~ConfigurationComplete(input_data)
        THEN [raised |-> TRUE]
        ELSE
        LET persona == input_data.persona.role
            job_description == input_data.job_to_be_done.task
            documents == input_data.documents
            Ranked(sections) ==
                CHOOSE found \in
                    {[raised |-> FALSE,
                      persona |-> persona,
                      job_description |-> job_description,
                      documents |-> documents,
                      top_sections |-> top_sections,
                      refined_text |-> refine_content(top_sections)] :
                         top_sections \in
                             {rank_sections(sections, DefaultLimit)}} : TRUE
        IN  CHOOSE found \in
                {IF extracted.raised THEN [raised |-> TRUE]
                 ELSE Ranked(extracted.sections) :
                     extracted \in {extract_sections(documents, persona,
                                                     job_description)}} : TRUE

\* lines 413-450: output_data, now being datetime.now().isoformat()
process_collection_output(found, now) ==
    [metadata |->
       [input_documents |->
            [i \in 1..Len(found.documents) |-> found.documents[i].filename],
        persona |-> found.persona,
        job_to_be_done |-> found.job_description,
        processing_timestamp |-> now],
     extracted_sections |->
       [i \in 1..Len(found.top_sections) |->
           [document |-> found.top_sections[i].document,
            section_title |-> found.top_sections[i].section_title,
            importance_rank |-> importance_rank(i),
            page_number |-> found.top_sections[i].page_number]],
     subsection_analysis |->
       [i \in 1..Len(found.top_sections) |->
           [document |-> found.top_sections[i].document,
            refined_text |->
                enhance_content_for_validation(
                    found.top_sections[i].content, found.persona,
                    found.job_description),
            page_number |-> found.top_sections[i].page_number]],
     refined_text |->
       enhance_content_for_validation(found.refined_text, found.persona,
                                      found.job_description)]

(***************************************************************************)
(* Idle values of the variables a specification does not use               *)
(***************************************************************************)
OutlineIdle ==
    /\ pdf = <<>> /\ pc = "idle" /\ page_num = 0 /\ line_num = 0
    /\ font_sizes = <<>> /\ avg_font_size = <<>> /\ outline = <<>>
    /\ title = <<>> /\ result = <<>> /\ accepted = <<>>

CallIdle == args = <<>> /\ ret = <<>>

SegmentIdle ==
    /\ sections_pc = "idle" /\ doc_num = 0 /\ item_num = 0
    /\ structured_content = <<>> /\ current_section = <<>>
    /\ current_content = <<>> /\ all_sections = <<>>

MainIdle ==
    /\ collections = <<>> /\ collection_num = 0
    /\ outputs = <<>> /\ errors = {}

CollectionsIdle == SegmentIdle /\ MainIdle

(***************************************************************************)
(* SpecHeading: is_likely_heading applied to bounded inputs.  On every     *)
(* size and average drawn here the double product avg * 1.1 (and avg *     *)
(* 1.2) orders against the size as the exact product does, the ties        *)
(* 10.0/11.0 and 10.0/12.0 included; a tie such as 11.0/12.1, where the    *)
(* double product rounds above the size, is outside the inputs.            *)
(***************************************************************************)
LongText == "A" \o Concat([i \in 1..20 |-> "bcdefghijk"])

HeadingTexts ==
    {"1. Introduction", "1 Overview", "2.1 Scope", "3.1.4 Data",
     "TABLE OF CONTENTS", "Introduction", "  Summary  ", "Chapter 1",
     "Section 12 notes.", "Appendix B", "Fig. 2: flow", "Q&A 2024",
     "A1 B C D E F G H I J K", "see page 4.", "A", LongText}

HeadingSizes == {109, 110, 119, 120, 123, 132}

HeadingAverages == {<<100, 1>>, <<205, 2>>, <<330, 3>>}

InitHeading ==
    /\ OutlineIdle
    /\ CollectionsIdle
    /\ args \in [text : HeadingTexts, font_size : HeadingSizes,
                 is_bold : BOOLEAN, avg_font_size : HeadingAverages]
    /\ ret = <<>>

CallIsLikelyHeading ==
    /\ ret = <<>>
    /\ ret' = <<is_likely_heading(args.text, args.font_size, args.is_bold,
                                  args.avg_font_size)>>
    /\ UNCHANGED <<args, outlineVars, collectionVars>>

NextHeading == CallIsLikelyHeading

SpecHeading == InitHeading /\ [][NextHeading]_vars

(***************************************************************************)
(* SpecLevel: determine_heading_level applied to bounded inputs.  The size *)
(* list is an arrangement (descending, ascending, or descending followed   *)
(* by ascending, so with every size twice) of a set of whole-point sizes.  *)
(***************************************************************************)
MaxSizePt == 18

LevelSizes == {10 * k : k \in 10..MaxSizePt}

Reverse(seq) == [i \in 1..Len(seq) |-> seq[Len(seq) + 1 - i]]

Arrangements(T) ==
    {SortDesc(T), Reverse(SortDesc(T)), SortDesc(T) \o Reverse(SortDesc(T))}

InitLevel ==
    /\ OutlineIdle
    /\ CollectionsIdle
    /\ \E T \in SUBSET LevelSizes : \E a \in Arrangements(T) :
        \E fs \in LevelSizes \cup {90} :
            args = [font_size |-> fs, font_sizes |-> a]
    /\ ret = <<>>

CallDetermineHeadingLevel ==
    /\ ret = <<>>
    /\ ret' = <<determine_heading_level(args.font_size, args.font_sizes)>>
    /\ UNCHANGED <<args, outlineVars, collectionVars>>

NextLevel == CallDetermineHeadingLevel

SpecLevel == InitLevel /\ [][NextLevel]_vars

(***************************************************************************)
(* SpecScore: calculate_ml_relevance_score applied to bounded inputs.  A   *)
(* text is a section title, a space and the section content, as            *)
(* extract_sections passes it.                                             *)
(***************************************************************************)
ScoreTexts ==
    {"Mixed Grill beef pork chicken fish",
     "Grilled chicken with rice",
     "Vegetarian Lasagna pasta cheese tofu beans salad",
     "Quinoa Bowl gluten-free quinoa rice corn potato",
     "Garlic Bread wheat flour bread butter",
     "Dinner Sides main course for a large crowd, buffet serving",
     "Dinner Buffet tofu rice quinoa corn potato salad",
     "Breakfast snack and lunch ideas",
     "Breakfast Sandwich ham bacon sausage on wheat bread",
     "Hotel Guide travel tips for your trip",
     "Fillable Forms Create and export PDF forms for onboarding in Acrobat",
     "Appendix see the table below"}

ScorePersonas == KnownPersonas \cup {"Student"}

ScoreJobs ==
    {"Prepare a vegetarian buffet-style dinner menu for a corporate gathering, including gluten-free items.",
     "Prepare a vegetarian menu",
     "Cater a gluten-free dinner",
     "Set up a buffet",
     "Plan a lunch",
     "Plan a trip of 4 days for a group of 10 college friends.",
     "Create and manage fillable forms for onboarding and compliance."}

InitScore ==
    /\ OutlineIdle
    /\ CollectionsIdle
    /\ args \in [text : ScoreTexts, persona : ScorePersonas,
                 job_description : ScoreJobs]
    /\ ret = <<>>

CallCalculateMlRelevanceScore ==
    /\ ret = <<>>
    /\ ret' = <<calculate_ml_relevance_score(args.text, args.persona,
                                             args.job_description)>>
    /\ UNCHANGED <<args, outlineVars, collectionVars>>

NextScore == CallCalculateMlRelevanceScore

SpecScore == InitScore /\ [][NextScore]_vars

(***************************************************************************)
(* SpecRank: rank_sections called on a section list, called again on the   *)
(* same list, and called on a list it returned.  ret is the log of the     *)
(* calls made so far.                                                      *)
(***************************************************************************)
MaxSections == 3
MaxCalls == 3

Section(doc, section_title, page, score) ==
    [document |-> doc, section_title |-> section_title,
     page_number |-> page, relevance_score |-> score]

SectionPool ==
    {Section("a.pdf", "Overview", 1, 300000),
     Section("a.pdf", "Day trips", 2, 500000),
     Section("b.pdf", "Hotels", 1, 300000),
     Section("b.pdf", "Packing", 4, 20000),
     Section("c.pdf", "Nightlife", 3, 500000)}

\* the lists of up to MaxSections different sections of the pool
SectionLists ==
    UNION {{s \in [1..n -> SectionPool] :
               \A i, j \in 1..n : s[i] = s[j] => i = j} : n \in 0..MaxSections}

Limits == {1, 2, DefaultLimit}

InitRank ==
    /\ OutlineIdle
    /\ CollectionsIdle
    /\ args \in [sections : SectionLists, limit : Limits]
    /\ ret = <<>>

CallRankSections ==
    /\ Len(ret) < MaxCalls
    /\ ret' = Append(ret, [sections |-> args.sections, limit |-> args.limit,
                           returned |-> rank_sections(args.sections,
                                                      args.limit)])
    /\ UNCHANGED <<args, outlineVars, collectionVars>>

\* the next call is given the list the last call returned
PassReturnedList ==
    /\ ret # <<>>
    /\ Len(ret) < MaxCalls
    /\ args.sections # ret[Len(ret)].returned
    /\ args' = [args EXCEPT !.sections = ret[Len(ret)].returned]
    /\ UNCHANGED <<ret, outlineVars, collectionVars>>

NextRank == CallRankSections \/ PassReturnedList

SpecRank == InitRank /\ [][NextRank]_vars

(***************************************************************************)
(* Spec: process_single_pdf, with extract_outline taken a page (first      *)
(* pass) and a line (second pass) at a time.                               *)
(*                                                                         *)
(* The documents: up to MaxBlocks blocks drawn from OutlineBlocks, each    *)
(* continuing the page or starting a new one; and one-page documents for   *)
(* title resolution, LeadImages image blocks followed by up to             *)
(* MaxTitleLines blocks drawn from TitleBlocks, with every metadata value  *)
(* and file name.  On the sizes of these documents the double value of     *)
(* sum/len * 1.1 (and * 1.2) orders against every line size as the exact   *)
(* value does.                                                             *)
(***************************************************************************)
MaxBlocks == 3
MaxTitleLines == 2

Span(t, sz, fl) == [text |-> t, size |-> sz, flags |-> fl]
TextBlock(lines) == [lines |-> lines]
ImageBlock == [image |-> "png"]

OutlineBlocks ==
    {TextBlock(<< <<Span("The report covers", 100, 0)>>,
                  <<Span("all results.", 100, 0)>> >>),
     TextBlock(<< <<Span("1. ", 120, 16), Span("Introduction", 160, 0)>> >>),
     TextBlock(<< <<Span("OVERVIEW", 180, 0)>> >>),
     TextBlock(<< <<Span("Fig. 2: flow", 160, 20)>> >>),
     TextBlock(<< <<[text |-> "Notes", size |-> 100]>> >>),
     TextBlock(<< <<[text |-> "Draft", flags |-> 0]>> >>)}

TitleBlocks ==
    {TextBlock(<< <<Span("Page 3", 180, 0)>> >>),
     TextBlock(<< <<Span("2024", 180, 0)>> >>),
     TextBlock(<< <<Span("Abc", 200, 0)>> >>),
     TextBlock(<< <<Span("Quarterly ", 160, 0), Span("Review", 140, 0)>> >>),
     TextBlock(<< <<Span(" Annual Results ", 160, 16)>> >>),
     TextBlock(<< <<Span("Hidden layer", 0, 0)>> >>),
     TextBlock(<< <<[text |-> "Draft", flags |-> 0]>> >>)}

LeadImages == {0, MaxTitleBlocks - 1}

MetadataValues ==
    {<<"error">>, <<"none">>, <<"title", "">>, <<"title", " x ">>,
     <<"title", "  Annual Report ">>, <<"title", "Q3">>}

FileNames == {".pdf", "v1.2.pdf"}

\* the pages of blocks bs, block i starting a new page when brk[i]
Paginate(bs, brk) ==
    LET PageOf(i) == 1 + Cardinality({j \in 2..i : brk[j]})
        np == IF Len(bs) = 0 THEN 0 ELSE PageOf(Len(bs))
        First(q) == CHOOSE i \in 1..Len(bs) :
                        PageOf(i) = q /\ \A j \in 1..(i - 1) : PageOf(j) < q
        Count(q) == Cardinality({i \in 1..Len(bs) : PageOf(i) = q})
    IN  [q \in 1..np |-> [k \in 1..Count(q) |-> bs[First(q) + k - 1]]]

OutlineDocuments ==
    UNION {{[name |-> "report.pdf", opens |-> TRUE, metadata |-> <<"none">>,
             pages |-> Paginate(bs, brk)] :
               bs \in [1..n -> OutlineBlocks],
               brk \in {f \in [1..n -> BOOLEAN] : n = 0 \/ ~f[1]}} :
           n \in 0..MaxBlocks}

TitleDocuments ==
    UNION {{[name |-> nm, opens |-> TRUE, metadata |-> md,
             pages |-> << [i \in 1..k |-> ImageBlock] \o bs >>] :
               nm \in FileNames, md \in MetadataValues, k \in LeadImages,
               bs \in [1..n -> TitleBlocks]} :
           n \in 0..MaxTitleLines}

UnreadableDocuments ==
    {[name |-> nm, opens |-> FALSE, metadata |-> <<"none">>, pages |-> <<>>] :
        nm \in FileNames}

\* a slide deck: a page of body text, one line of many spans, and up to
\* MaxSteps pages of one heading each, every heading of a size of its own,
\* in ascending or descending order of size
MaxSteps == 8

BodyLine == [i \in 1..24 |-> Span("text ", 100, 0)]

StepHeading(i) ==
    TextBlock(<< <<Span("PART " \o Ch(UpperLetters, i), 120 + 20 * i, 0)>> >>)

SlideDocuments ==
    {[name |-> "slides.pdf", opens |-> TRUE, metadata |-> <<"none">>,
      pages |-> << <<TextBlock(<<BodyLine>>)>> >>
                \o [i \in 1..n |->
                       <<StepHeading(IF up THEN i ELSE n + 1 - i)>>]] :
        n \in 0..MaxSteps, up \in BOOLEAN}

Init ==
    /\ pdf \in OutlineDocuments \cup TitleDocuments \cup UnreadableDocuments
               \cup SlideDocuments
    /\ pc = "open"
    /\ page_num = 0 /\ line_num = 0
    /\ font_sizes = <<>> /\ avg_font_size = <<>> /\ outline = <<>>
    /\ title = <<>> /\ result = <<>> /\ accepted = <<>>
    /\ CallIdle
    /\ CollectionsIdle
\* fitz.open: on failure the except branch of process_single_pdf returns
OpenPdf ==
    /\ pc = "open"
    /\ IF pdf.opens
       THEN pc' = "title" /\ UNCHANGED result
       ELSE /\ result' = <<[title |-> Stem(pdf.name), outline |-> <<>>]>>
            /\ pc' = "done"
    /\ UNCHANGED <<pdf, page_num, line_num, font_sizes, avg_font_size,
                   outline, title, accepted, callVars,
                   collectionVars>>

ResolveTitle ==
    /\ pc = "title"
    /\ title' = <<ResolvedTitle(pdf, pdf.name)>>
    /\ pc' = "pass1"
    /\ page_num' = 0
    /\ UNCHANGED <<pdf, line_num, font_sizes, avg_font_size, outline,
                   result, accepted, callVars,
                   collectionVars>>

\* first pass, one page; a span without "size" raises, extract_outline
\* logs the error and returns the outline as it stands
CollectPage ==
    /\ pc = "pass1" /\ page_num < Len(pdf.pages)
    /\ LET spans == Flatten(PageLines(pdf.pages[page_num + 1]))
       IN  IF \E i \in 1..Len(spans) : "size" \notin DOMAIN spans[i]
           THEN pc' = "close" /\ UNCHANGED <<font_sizes, page_num>>
           ELSE /\ font_sizes' = font_sizes \o PageSizes(pdf.pages[page_num + 1])
                /\ page_num' = page_num + 1
                /\ pc' = pc
    /\ UNCHANGED <<pdf, line_num, avg_font_size, outline, title, result,
                   accepted, callVars,
                   collectionVars>>

\* variant: the empty check of line 154 left out, the second pass entered
\* with no size collected
FinishCollect_no_empty_check ==
    /\ pc = "pass1" /\ page_num = Len(pdf.pages)
    /\ avg_font_size' = <<SumSeq(font_sizes), Len(font_sizes)>>
    /\ pc' = "pass2"
    /\ page_num' = 0 /\ line_num' = 0
    /\ UNCHANGED <<pdf, font_sizes, outline, title, result, accepted,
                   callVars,
                   collectionVars>>

\* lines 154-157: no sizes, no headings; else the average
FinishCollect ==
    /\ pc = "pass1" /\ page_num = Len(pdf.pages)
    /\ IF font_sizes = <<>>
       THEN pc' = "close" /\ UNCHANGED <<avg_font_size, page_num, line_num>>
       ELSE /\ avg_font_size' = <<SumSeq(font_sizes), Len(font_sizes)>>
            /\ pc' = "pass2"
            /\ page_num' = 0 /\ line_num' = 0
    /\ UNCHANGED <<pdf, font_sizes, outline, title, result, accepted,
                   callVars,
                   collectionVars>>

\* second pass, one line; a span without "flags" raises
ClassifyLine ==
    /\ pc = "pass2" /\ page_num < Len(pdf.pages)
    /\ line_num < Len(PageLines(pdf.pages[page_num + 1]))
    /\ LET line == PageLines(pdf.pages[page_num + 1])[line_num + 1]
           line_text == strip(LineText(line))
           line_font_size == LineFontSize(line)
       IN  IF \E i \in 1..Len(line) : "flags" \notin DOMAIN line[i]
           THEN pc' = "close" /\ UNCHANGED <<outline, accepted, line_num>>
           ELSE /\ outline' = ClassifyOne(outline, line, page_num,
                                          avg_font_size, font_sizes)
                /\ accepted' =
                     IF is_likely_heading(line_text, line_font_size,
                                          LineIsBold(line), avg_font_size)
                     THEN Append(accepted,
                            [text |-> line_text, page |-> page_num + 1,
                             font_size |-> line_font_size,
                             level |-> determine_heading_level(
                                           line_font_size, font_sizes)])
                     ELSE accepted
                /\ line_num' = line_num + 1
                /\ pc' = pc
    /\ UNCHANGED <<pdf, page_num, font_sizes, avg_font_size, title, result,
                   callVars,
                   collectionVars>>

NextPage ==
    /\ pc = "pass2" /\ page_num < Len(pdf.pages)
    /\ line_num = Len(PageLines(pdf.pages[page_num + 1]))
    /\ page_num' = page_num + 1
    /\ line_num' = 0
    /\ UNCHANGED <<pdf, pc, font_sizes, avg_font_size, outline, title,
                   result, accepted, callVars,
                   collectionVars>>

FinishClassify ==
    /\ pc = "pass2" /\ page_num = Len(pdf.pages)
    /\ pc' = "close"
    /\ UNCHANGED <<pdf, page_num, line_num, font_sizes, avg_font_size,
                   outline, title, result, accepted, callVars,
                   collectionVars>>

\* doc.close() and the return of lines 215-218
ReturnResult ==
    /\ pc = "close"
    /\ result' = <<[title |-> title[1], outline |-> outline]>>
    /\ pc' = "done"
    /\ UNCHANGED <<pdf, page_num, line_num, font_sizes, avg_font_size,
                   outline, title, accepted, callVars,
                   collectionVars>>

Next ==
    \/ OpenPdf
    \/ ResolveTitle
    \/ CollectPage
    \/ FinishCollect
    \/ ClassifyLine
    \/ NextPage
    \/ FinishClassify
    \/ ReturnResult

Spec == Init /\ [][Next]_vars

(***************************************************************************)
(* SpecSections: one call of extract_sections, item by item.  args holds   *)
(* the call's documents, persona and job_description.                      *)
(***************************************************************************)
MaxDocs == 2

Item(t, sz, fl) == <<Span(t, sz, fl)>>

OnePage(lines) == <<<<TextBlock(lines)>>>>

\* the documents of a collection: sectioned, headings with no body, no
\* heading, a body that ends unflushed, unreadable, malformed
CollectionDocuments ==
    { [filename |-> "cities.pdf", opens |-> TRUE,
       pages |-> <<<<TextBlock(<<Item("a note before any heading", 100, 0),
                                 Item("Hotel Guide", 140, 16),
                                 Item("book a hotel near the beach", 100, 0)>>)>>,
                   <<TextBlock(<<Item("and a restaurant for the group", 100, 0),
                                 Item("Menu", 140, 16),
                                 Item("Dinner Recipe", 140, 16),
                                 Item("a vegetarian buffet with rice", 100, 0)>>)>>>>],
      [filename |-> "titles.pdf", opens |-> TRUE,
       pages |-> OnePage(<<Item("Travel Tips", 140, 16),
                           Item("City Restaurants", 140, 16),
                           Item("  ", 100, 0),
                           Item("Vegetarian Menu", 140, 16)>>)],
      [filename |-> "plain.pdf", opens |-> TRUE,
       pages |-> OnePage(<<Item("visit the city and the coast", 100, 0),
                           Item("a hotel with a restaurant", 100, 0)>>)],
      [filename |-> "open.pdf", opens |-> TRUE,
       pages |-> OnePage(<<Item("Group Activities", 140, 16),
                           Item("travel to the beach by coach", 100, 0),
                           Item("Weather Notes", 140, 16),
                           Item("nothing to report", 100, 0)>>)],
      [filename |-> "scan.pdf", opens |-> FALSE, pages |-> <<>>],
      [filename |-> "odd.pdf", opens |-> TRUE,
       pages |-> OnePage(<<Item("Buffet Planning", 140, 16),
                           <<[text |-> "menu for the dinner"]>>>>)] }

SectionPersonas == {"Travel Planner", "Food Contractor", "Student"}

SectionJob(persona) ==
    IF persona = "Travel Planner"
    THEN "Plan a trip of 4 days for a group of 10 college friends."
    ELSE IF persona = "Student"
    THEN "Summarise the key reading for the exam."
    ELSE "Prepare a vegetarian buffet-style dinner menu for a corporate gathering, including gluten-free items."

\* the batches: up to MaxDocs documents of distinct names, in any order
DocumentLists ==
    {ds \in UNION {[1..n -> CollectionDocuments] : n \in 0..MaxDocs} :
        \A i, j \in 1..Len(ds) : i # j => ds[i].filename # ds[j].filename}

InitSections ==
    /\ OutlineIdle
    /\ MainIdle
    /\ \E ds \in DocumentLists, persona \in SectionPersonas :
           args = [documents |-> ds, persona |-> persona,
                   job_description |-> SectionJob(persona)]
    /\ ret = <<>>
    /\ sections_pc = "document" /\ doc_num = 1 /\ item_num = 0
    /\ structured_content = <<>> /\ current_section = <<>>
    /\ current_content = <<>> /\ all_sections = <<>>

\* lines 285-293: the next document is read; title and body start empty.
\* A read that raises leaves extract_sections
ReadDocument ==
    /\ sections_pc = "document" /\ doc_num <= Len(args.documents)
    /\ LET read == extract_text_with_structure(args.documents[doc_num])
       IN  IF read.raised
           THEN /\ sections_pc' = "raised"
                /\ UNCHANGED <<structured_content, current_section,
                               current_content, item_num>>
           ELSE /\ sections_pc' = "item"
                /\ structured_content' = read.items
                /\ current_section' = <<>>
                /\ current_content' = <<>>
                /\ item_num' = 1
    /\ UNCHANGED <<doc_num, all_sections, outlineVars, callVars, mainVars>>

\* lines 296-320: one item of the open document
SegmentNextItem ==
    /\ sections_pc = "item" /\ item_num <= Len(structured_content)
    /\ LET st == SegmentItem([sections |-> all_sections,
                              title |-> current_section,
                              content |-> current_content],
                             structured_content[item_num],
                             args.documents[doc_num].filename,
                             args.persona, args.job_description)
       IN  /\ all_sections' = st.sections
           /\ current_section' = st.title
           /\ current_content' = st.content
    /\ item_num' = item_num + 1
    /\ UNCHANGED <<sections_pc, doc_num, structured_content, outlineVars,
                   callVars, mainVars>>

\* lines 322-336: the end of the document flushes the open section
FlushDocument ==
    /\ sections_pc = "item" /\ item_num > Len(structured_content)
    /\ all_sections' = CloseSection(all_sections,
                                    args.documents[doc_num].filename,
                                    current_section, current_content,
                                    args.persona, args.job_description)
    /\ doc_num' = doc_num + 1
    /\ sections_pc' = "document"
    /\ UNCHANGED <<item_num, structured_content, current_section,
                   current_content, outlineVars, callVars, mainVars>>

\* line 338: return all_sections
ReturnSections ==
    /\ sections_pc = "document" /\ doc_num > Len(args.documents)
    /\ ret' = <<all_sections>>
    /\ sections_pc' = "done"
    /\ UNCHANGED <<args, doc_num, item_num, structured_content,
                   current_section, current_content, all_sections,
                   outlineVars, mainVars>>

NextSections ==
    \/ ReadDocument
    \/ SegmentNextItem
    \/ FlushDocument
    \/ ReturnSections

SpecSections == InitSections /\ [][NextSections]_vars

(***************************************************************************)
(* SpecMain: main over its three collections, one collection a step.  args *)
(* holds use_output_dir.                                                   *)
(***************************************************************************)
MaxGuideSections == 4

CollectionNames == <<"Collection 1", "Collection 2", "Collection 3">>

GuideTitles ==
    <<"Beach Hotels", "City Restaurants", "Museum Guide", "Night Activities",
      "Coast Travel", "Local Food">>

GuideBodies ==
    <<"a hotel near the sea", "places to visit on a trip",
      "a restaurant for the group", "explore the local culture",
      "tips for college friends">>

\* a guide of n sections, one a page, the bodies shifted by k
GuideDocument(k, n) ==
    [filename |-> "guide" \o ToString(k) \o ".pdf", opens |-> TRUE,
     pages |-> [i \in 1..n |->
         <<TextBlock(<<Item(GuideTitles[((i - 1) % Len(GuideTitles)) + 1],
                            140, 16),
                       Item(GuideBodies[((i + k) % Len(GuideBodies)) + 1],
                            100, 0)>>)>>]]

DocumentNamed(filename) ==
    CHOOSE d \in CollectionDocuments : d.filename = filename

Configuration(id, persona, documents) ==
    [challenge_info |-> [challenge_id |-> id],
     persona |-> [role |-> persona],
     job_to_be_done |-> [task |-> SectionJob(persona)],
     documents |-> documents]

\* Configuration without the persona, and without the task of the job
WithoutPersona(input_data) ==
    [f \in DOMAIN input_data \ {"persona"} |-> input_data[f]]

WithoutTask(input_data) ==
    [input_data EXCEPT !.job_to_be_done = [description |-> "none"]]

TravelConfiguration ==
    Configuration("round_1b_002", "Travel Planner",
                  <<DocumentNamed("cities.pdf"), DocumentNamed("open.pdf")>>)

\* the directories a collection name can stand for: absent, two sections,
\* more sections than the limit, no section, no persona, no task, an
\* unreadable document
CollectionDirs ==
    { [exists |-> FALSE, input_data |-> <<>>],
      [exists |-> TRUE, input_data |-> TravelConfiguration],
      [exists |-> TRUE,
       input_data |-> Configuration("round_1b_001", "Travel Planner",
           [k \in 1..3 |-> GuideDocument(k, MaxGuideSections)])],
      [exists |-> TRUE,
       input_data |-> Configuration("round_1b_003", "Food Contractor",
           <<DocumentNamed("plain.pdf")>>)],
      [exists |-> TRUE, input_data |-> WithoutPersona(TravelConfiguration)],
      [exists |-> TRUE, input_data |-> WithoutTask(TravelConfiguration)],
      [exists |-> TRUE,
       input_data |-> Configuration("round_1b_004", "Travel Planner",
           <<DocumentNamed("scan.pdf"), DocumentNamed("open.pdf")>>)] }

\* the three directories of a batch differ
CollectionBatches ==
    {b \in [1..Len(CollectionNames) -> CollectionDirs] :
        \A i, j \in 1..Len(CollectionNames) : i # j => b[i] # b[j]}

Timestamps == {"2025-07-28T10:00:00.000001", "2025-07-28T10:00:01.000001"}

InitMain ==
    /\ OutlineIdle
    /\ SegmentIdle
    /\ \E use_output_dir \in BOOLEAN :
           args = [use_output_dir |-> use_output_dir]
    /\ ret = <<>>
    /\ collections \in CollectionBatches
    /\ collection_num = 1
    /\ outputs = <<>>
    /\ errors = {}

\* line 555: a collection whose directory does not exist is passed over
SkipCollection ==
    /\ collection_num <= Len(CollectionNames)
    /\ ~collections[collection_num].exists
    /\ collection_num' = collection_num + 1
    /\ UNCHANGED <<collections, outputs, errors, outlineVars, callVars,
                   segmentVars>>

\* variant: no try around the call, a failure leaves main
ProcessCollection_uncaught ==
    /\ collection_num <= Len(CollectionNames)
    /\ collections[collection_num].exists
    /\ \E found \in {process_collection_sections(collections[collection_num])} :
           IF found.raised
           THEN /\ collection_num' = Len(CollectionNames) + 1
                /\ UNCHANGED <<outputs, errors>>
           ELSE /\ \E now \in Timestamps :
                       outputs' = Append(outputs,
                          [collection |-> CollectionNames[collection_num],
                           directory |-> IF args.use_output_dir
                                         THEN "output" ELSE "collection",
                           output_data |->
                               process_collection_output(found, now)])
                /\ collection_num' = collection_num + 1
                /\ UNCHANGED errors
    /\ UNCHANGED <<collections, outlineVars, callVars, segmentVars>>

\* lines 556-576: the collection is processed and its output written, or the
\* failure is logged; either way the loop goes on
ProcessCollection ==
    /\ collection_num <= Len(CollectionNames)
    /\ collections[collection_num].exists
    /\ \E found \in {process_collection_sections(collections[collection_num])} :
           IF found.raised
           THEN /\ errors' = errors \cup {CollectionNames[collection_num]}
                /\ UNCHANGED outputs
           ELSE /\ \E now \in Timestamps :
                       outputs' = Append(outputs,
                          [collection |-> CollectionNames[collection_num],
                           directory |-> IF args.use_output_dir
                                         THEN "output" ELSE "collection",
                           output_data |->
                               process_collection_output(found, now)])
                /\ UNCHANGED errors
    /\ collection_num' = collection_num + 1
    /\ UNCHANGED <<collections, outlineVars, callVars, segmentVars>>

NextMain ==
    \/ SkipCollection
    \/ ProcessCollection

SpecMain == InitMain /\ [][NextMain]_vars

(***************************************************************************)
(* Claims on process_single_pdf and extract_outline (Spec)                 *)
(***************************************************************************)
SameKey(a, b) == a.text = b.text /\ a.page = b.page

\* the accepted lines that repeat no earlier accepted line, in order
FirstOccurrences(log) ==
    LET keep == {i \in 1..Len(log) :
                    \A j \in 1..(i - 1) : ~SameKey(log[j], log[i])}
        Nth(k) == CHOOSE i \in keep : Cardinality({j \in keep : j < i}) = k - 1
    IN  [k \in 1..Cardinality(keep) |->
            [level |-> log[Nth(k)].level, text |-> log[Nth(k)].text,
             page |-> log[Nth(k)].page]]

\* C1: the outline never holds two entries with the same (text, page); of
\* the accepted lines that share (text, page) the first is the one kept,
\* and the entries stay in the order they were accepted.
C1_OutlineDeduplicated ==
    /\ \A i, j \in 1..Len(outline) :
           i # j => ~SameKey(outline[i], outline[j])
    /\ outline = FirstOccurrences(accepted)
    /\ result # <<>> /\ pdf.opens => result[1].outline = outline

\* a heading line repeated on one page, returned once
C1_Witness ==
    /\ pc = "done" /\ Len(accepted) = 2 /\ SameKey(accepted[1], accepted[2])
    /\ Len(result[1].outline) = 1

LevelNumber(level) == CHOOSE n \in 1..MaxLevels : level = "H" \o ToString(n)

\* C2: of two accepted headings of a document, the one with the strictly
\* larger font size has the lower or equal level number.
C2_LevelMonotone ==
    \A i, j \in 1..Len(accepted) :
        accepted[i].font_size > accepted[j].font_size
            => LevelNumber(accepted[i].level) <= LevelNumber(accepted[j].level)

\* two accepted headings of different sizes and different levels
C2_Witness ==
    /\ pc = "done"
    /\ \E i, j \in 1..Len(accepted) :
           /\ accepted[i].font_size > accepted[j].font_size
           /\ LevelNumber(accepted[i].level) < LevelNumber(accepted[j].level)

\* C6: whatever the document (empty, without metadata, failing to open),
\* the title of the result is a non-empty string.
C6_TitleNonEmpty ==
    result # <<>> => Len(result[1].title) > 0

\* a document that fails to open and whose file name is ".pdf"
C6_Witness ==
    /\ ~pdf.opens /\ pdf.name = ".pdf" /\ result # <<>>
    /\ result[1].title = ".pdf"

\* the first page's scan: no candidates when a span of its first 15 blocks
\* cannot be read
FirstPageCandidates(doc) ==
    IF Len(doc.pages) = 0 THEN <<>>
    ELSE LET spans == Flatten(PageLines(Take(doc.pages[1], MaxTitleBlocks)))
         IN  IF \E i \in 1..Len(spans) : ~SpanHasTextAndSize(spans[i])
             THEN <<>>
             ELSE TitleCandidates(doc.pages[1])

\* C7: the trimmed metadata title when its length exceeds 1, whatever the
\* first page holds; otherwise the first-page candidate of largest font
\* size, the first of them in document order; otherwise the file name stem.
C7_TitleFallback ==
    title # <<>> =>
        LET meta == IF pdf.metadata[1] = "title"
                    THEN strip(pdf.metadata[2]) ELSE ""
            cands == FirstPageCandidates(pdf)
        IN  IF Len(meta) > 1 THEN title[1] = meta
            ELSE IF cands # <<>>
            THEN \E i \in 1..Len(cands) :
                    /\ title[1] = cands[i].text
                    /\ \A j \in 1..Len(cands) : cands[j].size <= cands[i].size
                    /\ \A j \in 1..(i - 1) : cands[j].size < cands[i].size
            ELSE title[1] = Stem(pdf.name)

\* no metadata title, two candidates of the same largest size with
\* different texts: the first is the title
C7_Witness ==
    /\ title # <<>> /\ pdf.metadata = <<"none">>
    /\ LET cands == FirstPageCandidates(pdf)
       IN  /\ Len(cands) = 2 /\ cands[1].size = cands[2].size
           /\ cands[1].text # cands[2].text
           /\ title[1] = cands[1].text

(***************************************************************************)
(* Claims on is_likely_heading (SpecHeading)                               *)
(***************************************************************************)
\* C8: a line whose font size is below 1.10 times the average is rejected,
\* whatever its bold flag and whatever pattern its text matches.
C8_BelowGateRejected ==
    (ret # <<>> /\ args.font_size * args.avg_font_size[2] * 10
                     < args.avg_font_size[1] * 11)
        => ret[1] = FALSE

\* average 10.0, size 10.9, bold, a numbered heading text: rejected
C8_Witness ==
    /\ args.avg_font_size = <<100, 1>> /\ args.font_size = 109
    /\ args.is_bold /\ args.text = "1. Introduction"
    /\ ret = <<FALSE>>

\* C9: with average 10.0 a line of size exactly 11.0 passes the size gate,
\* and its acceptance is what the length filter and the pattern, bold and
\* upper-case rules decide.
C9_BoundaryInclusive ==
    (ret # <<>> /\ args.avg_font_size = <<100, 1>> /\ args.font_size = 110)
        => LET text == strip(args.text)
           IN  ret[1] = (/\ ~LengthFilter(text)
                         /\ \/ compiled_patterns(text)
                            \/ BoldRule(110, args.is_bold, <<100, 1>>)
                            \/ UpperRule(text))

\* average 10.0, size 11.0, not bold, a capitalised phrase: accepted
C9_Witness ==
    /\ args.avg_font_size = <<100, 1>> /\ args.font_size = 110
    /\ ~args.is_bold /\ args.text = "Introduction"
    /\ ret = <<TRUE>>

(***************************************************************************)
(* Claims on determine_heading_level (SpecLevel)                           *)
(***************************************************************************)
\* C10: the level is rank+1 for the first rank among the six largest
\* distinct sizes whose size the font size reaches, which is the number of
\* distinct sizes above the font size; H6 when there is no such rank; and
\* with the distinct sizes 18, 14, 12, 10 a line of size 14 gets H2.
C10_LevelByRank ==
    ret # <<>> =>
        LET D == ToSet(args.font_sizes)
            above == Cardinality({d \in D : d > args.font_size})
        IN  /\ ret[1] = IF above < Cardinality(D) /\ above < MaxLevels
                        THEN "H" \o ToString(above + 1)
                        ELSE "H6"
            /\ (D = {180, 140, 120, 100} /\ args.font_size = 140)
                   => ret[1] = "H2"

\* the scenario, with the sizes collected in ascending order
C10_Witness ==
    /\ args.font_sizes = <<100, 120, 140, 180>> /\ args.font_size = 140
    /\ ret = <<"H2">>

(***************************************************************************)
(* Claims on calculate_ml_relevance_score (SpecScore).  0.1 is 10000 in    *)
(* the unit of a score, and 0.1 * 0.2 * 0.7 * 0.6 = 0.0084 is 840.         *)
(***************************************************************************)
Scored == pc = "idle" /\ ret # <<>> /\ "persona" \in DOMAIN args

\* C3 as the specification states it: for every section text, every task
\* description and every known persona the returned score is at least 0.1.
C3_ScoreAtLeastTenth ==
    (Scored /\ args.persona \in KnownPersonas) => ret[1] >= 10000

\* the task description names a requirement whose factor can be below 1
NamesPenalisingRequirement(job_description) ==
    \E w \in {"vegetarian", "gluten-free", "dinner"} :
        Contains(lower(job_description), w)

\* C3, amended: for Travel Planner and HR professional the returned score
\* is at least 0.1; for Food Contractor it is at least 0.1 when the task
\* description names none of vegetarian, gluten-free and dinner, and at
\* least 0.0084 in every case.
C3_ScoreFloorByPersona ==
    (Scored /\ args.persona \in KnownPersonas) =>
        /\ args.persona # "Food Contractor" => ret[1] >= 10000
        /\ args.persona = "Food Contractor" =>
             /\ ret[1] >= 840
             /\ ~NamesPenalisingRequirement(args.job_description)
                    => ret[1] >= 10000

\* a Food Contractor score at its lowest, 0.0084: the floored base score
\* under the three penalising factors
C3_Witness ==
    /\ Scored
    /\ args.persona = "Food Contractor"
    /\ base_relevance(args.text, args.persona, args.job_description) = 1
    /\ food_contractor_ml_score(args.text, args.job_description) = 840
    /\ ret[1] = 840

\* the keywords of the list that occur in the text when both are compared
\* in lower case
CountAnyCase(words, text) ==
    Cardinality({i \in 1..Len(words) :
                    Contains(lower(text), lower(words[i]))})

\* max(0.1, 3.0*H + 2.0*M + 1.0*L + 2.0*T) in tenths, H, M and L counted
\* whatever the letter case of keyword and text
CaseInsensitiveBase(text, persona, job_description) ==
    LET kw == persona_keywords(persona)
        job_keywords == Split(lower(job_description))
        sum == 30 * CountAnyCase(kw.high_priority, text)
               + 20 * CountAnyCase(kw.medium_priority, text)
               + 10 * CountAnyCase(kw.low_priority, text)
               + 20 * Cardinality({i \in 1..Len(job_keywords) :
                          /\ Len(job_keywords[i]) > 3
                          /\ Contains(lower(text), job_keywords[i])})
    IN  IF sum > 1 THEN sum ELSE 1

\* C22: for a known persona the base score under the returned score is
\* max(0.1, 3.0*H + 2.0*M + 1.0*L + 2.0*T), the keywords counted under
\* case-insensitive comparison.
C22_BaseScoreCaseInsensitive ==
    (Scored /\ args.persona \in KnownPersonas) =>
        ret[1] = CaseInsensitiveBase(args.text, args.persona,
                                     args.job_description)
                 * (IF args.persona = "Food Contractor"
                    THEN food_contractor_ml_score(args.text,
                                                  args.job_description)
                    ELSE 10000)

\* the four trigger phrases of the domain adjustments
Triggers == <<"vegetarian", "gluten-free", "dinner", "buffet">>

Triggered(job_description, k) == Contains(lower(job_description), Triggers[k])

\* the factor adjustment k applies to the text when its trigger is the task
Adjustment(text, k) ==
    CASE k = 1 -> VegetarianFactor(text, Triggers[1])
      [] k = 2 -> GlutenFreeFactor(text, Triggers[2])
      [] k = 3 -> DinnerFactor(text, Triggers[3])
      [] k = 4 -> BuffetFactor(text, Triggers[4])

GatedFactor(text, job_description, k) ==
    IF Triggered(job_description, k) THEN Adjustment(text, k) ELSE 10

\* the adjustments of the triggers present in the task, composed in order
GatedMultiplier(text, job_description) ==
    Scale(Scale(Scale(Scale(10000,
        GatedFactor(text, job_description, 1)),
        GatedFactor(text, job_description, 2)),
        GatedFactor(text, job_description, 3)),
        GatedFactor(text, job_description, 4))

\* C23: each of the four adjustments is gated by its own trigger phrase in
\* the task description: the multiplier is the product of the adjustments
\* whose trigger is present, whatever the text would give to the others; it
\* is exactly 1.0 when no trigger is present; and for a persona other than
\* Food Contractor the score is the base score.
C23_AdjustmentsGatedByTrigger ==
    Scored =>
        LET base == base_relevance(args.text, args.persona,
                                   args.job_description)
        IN  /\ args.persona # "Food Contractor" => ret[1] = base * 10000
            /\ args.persona = "Food Contractor" =>
                 /\ ret[1] = base * GatedMultiplier(args.text,
                                                    args.job_description)
                 /\ (\A k \in 1..4 : ~Triggered(args.job_description, k))
                        => ret[1] = base * 10000

\* a Food Contractor score where one adjustment applies and another, which
\* the text would fire, is switched off by the absence of its trigger
C23_Witness ==
    /\ Scored
    /\ args.persona = "Food Contractor"
    /\ \E k \in 1..4 : /\ ~Triggered(args.job_description, k)
                       /\ Adjustment(args.text, k) # 10
    /\ \E k \in 1..4 : /\ Triggered(args.job_description, k)
                       /\ Adjustment(args.text, k) # 10
    /\ ret[1] # base_relevance(args.text, args.persona,
                               args.job_description) * 10000

OnlyVegetarian(job_description) ==
    \A k \in 1..4 : Triggered(job_description, k) <=> k = 1

\* the 1.5 / 0.2 / 0.8 factor, applied only when confidence > 0.3
ConfidentVegetarianFactor(text) ==
    LET veg_analysis == ml_vegetarian_classifier(text)
    IN  IF ~FracLess(<<3, 10>>, veg_analysis.confidence) THEN 10
        ELSE IF FracLeq(<<7, 10>>, veg_analysis.vegetarian_prob) THEN 15
        ELSE IF FracLeq(veg_analysis.vegetarian_prob, <<3, 10>>) THEN 2
        ELSE 8

\* C24: for a task that mentions "vegetarian" and no other trigger and the
\* text "grilled chicken with rice" the classifier's confidence is at most
\* 0.3 and the multiplier stays 1.0; in general, for such a task, the factor
\* 1.5 / 0.2 / 0.8 is applied only when confidence > 0.3.
C24_LowConfidenceSkipsVegetarian ==
    (/\ Scored
     /\ args.persona = "Food Contractor"
     /\ OnlyVegetarian(args.job_description)) =>
        LET base == base_relevance(args.text, args.persona,
                                   args.job_description)
            confidence == ml_vegetarian_classifier(args.text).confidence
        IN  /\ ret[1] = base * Scale(10000,
                                     ConfidentVegetarianFactor(args.text))
            /\ ~FracLess(<<3, 10>>, confidence) => ret[1] = base * 10000
            /\ lower(args.text) = "grilled chicken with rice" =>
                 /\ FracLeq(confidence, <<3, 10>>)
                 /\ ret[1] = base * 10000

\* the score of "Grilled chicken with rice" under a vegetarian-only task,
\* a text the classifier would call non-vegetarian were it confident
C24_Witness ==
    /\ Scored
    /\ args.persona = "Food Contractor"
    /\ OnlyVegetarian(args.job_description)
    /\ lower(args.text) = "grilled chicken with rice"
    /\ FracLeq(ml_vegetarian_classifier(args.text).vegetarian_prob,
               <<3, 10>>)

(***************************************************************************)
(* Claims on rank_sections (SpecRank)                                      *)
(***************************************************************************)
RankCalls == IF pc = "idle" /\ "limit" \in DOMAIN args THEN DOMAIN ret ELSE {}

\* the place of sections[i] in the ranking: one more than the number of
\* sections with a larger score or with the same score and an earlier index
Place(sections, i) ==
    1 + Cardinality({j \in 1..Len(sections) :
            \/ sections[j].relevance_score > sections[i].relevance_score
            \/ /\ sections[j].relevance_score = sections[i].relevance_score
               /\ j < i})

\* C4: rank_sections returns the first N sections of the input ordered by
\* relevance_score descending, sections of equal score in their input order:
\* the result has min(N, length) entries and every section whose place is
\* within N stands at its place.
C4_TopNStableDescending ==
    \A c \in RankCalls :
        LET sections == ret[c].sections
            returned == ret[c].returned
            n == IF Len(sections) < ret[c].limit THEN Len(sections)
                 ELSE ret[c].limit
        IN  /\ Len(returned) = n
            /\ \A i \in 1..Len(sections) :
                   Place(sections, i) <= n
                       => returned[Place(sections, i)] = sections[i]

\* a call that cut the list, moved a later section to the front and kept one
\* of two equally scored sections, the one earlier in the input
C4_Witness ==
    \E c \in RankCalls :
        LET sections == ret[c].sections
            returned == ret[c].returned
        IN  /\ Len(sections) > ret[c].limit
            /\ returned # <<>> /\ returned[1] # sections[1]
            /\ \E i, j \in 1..Len(sections) :
                   /\ i < j
                   /\ sections[i].relevance_score = sections[j].relevance_score
                   /\ \E k \in 1..Len(returned) : returned[k] = sections[i]
                   /\ \A k \in 1..Len(returned) : returned[k] # sections[j]

\* C5: a call on the list an earlier call was given returns the sequence
\* that call returned, and a call on a list that a call returned returns
\* that list unchanged.
C5_RankingRepeatableIdempotent ==
    \A c, d \in RankCalls :
        /\ ret[c].sections = ret[d].sections
               => ret[c].returned = ret[d].returned
        /\ ret[d].sections = ret[c].returned
               => ret[d].returned = ret[d].sections

\* two calls on one list, then a call on the list they returned, which
\* differs from the first list and holds two sections of equal score
C5_Witness ==
    /\ RankCalls = 1..3
    /\ ret[1].sections = ret[2].sections
    /\ ret[3].sections = ret[2].returned
    /\ ret[3].sections # ret[1].sections
    /\ \E i, j \in 1..Len(ret[3].sections) :
           /\ i < j
           /\ ret[3].sections[i].relevance_score
                  = ret[3].sections[j].relevance_score

(***************************************************************************)
(* Claims on documents without fragments and on failures (Spec)            *)
(***************************************************************************)
AllSpans(doc) ==
    Flatten([q \in 1..Len(doc.pages) |-> Flatten(PageLines(doc.pages[q]))])

\* no page of the document holds a span
ZeroFragments(doc) == AllSpans(doc) = <<>>

Degraded(doc) == [title |-> Stem(doc.name), outline |-> <<>>]

\* C11 as the specification states it: a document with zero fragments
\* yields the filename stem as title and the empty outline, and the second
\* pass does not run.
C11_EmptyDocumentStemTitle ==
    ZeroFragments(pdf) =>
        /\ pc # "pass2"
        /\ pc = "done" => result = <<Degraded(pdf)>>

\* C11, amended: a document with zero fragments yields the empty outline
\* without the second pass running, and its title is the trimmed metadata
\* title when that is longer than one character and the filename stem
\* otherwise.
C11_EmptyDocument ==
    ZeroFragments(pdf) =>
        /\ pc # "pass2" /\ accepted = <<>>
        /\ pc = "done" =>
             /\ result[1].outline = <<>>
             /\ result[1].title =
                    IF /\ pdf.metadata[1] = "title"
                       /\ Len(strip(pdf.metadata[2])) > 1
                    THEN strip(pdf.metadata[2])
                    ELSE Stem(pdf.name)

\* an opened document whose only page holds image blocks alone, returned
\* with its metadata title
C11_Witness ==
    /\ pc = "done" /\ pdf.opens
    /\ ZeroFragments(pdf)
    /\ Len(pdf.pages) = 1 /\ pdf.pages[1] # <<>>
    /\ result[1].title # Stem(pdf.name)
    /\ result[1].outline = <<>>

\* a step of process_single_pdf fails on this document: fitz.open, the
\* metadata read, or the read of a span's size or flags
FailureOccurs(doc) ==
    \/ ~doc.opens
    \/ doc.metadata = <<"error">>
    \/ \E i \in 1..Len(AllSpans(doc)) :
           ~({"size", "flags"} \subseteq DOMAIN AllSpans(doc)[i])

\* C12: whenever a failure occurs while a document is processed,
\* process_single_pdf returns the degraded result, title the filename stem
\* and outline empty.
C12_FailureGivesDegradedResult ==
    (pc = "done" /\ FailureOccurs(pdf)) => result = <<Degraded(pdf)>>

\* C16: every result process_single_pdf returns is accepted by
\* validate_json_schema: the title is a string, the outline a list, and every
\* entry has a level among H1..H6, a string text and an integer page >= 1.
C16_ResultValid ==
    pc = "done" =>
        /\ validate_json_schema(result[1])
        /\ \A i \in 1..Len(result[1].outline) :
               /\ result[1].outline[i].level
                      \in {"H1", "H2", "H3", "H4", "H5", "H6"}
               /\ result[1].outline[i].page >= 1

\* a result with a heading whose size is none of the six largest of more
\* than six sizes and whose level is H6
C16_Witness ==
    /\ pc = "done"
    /\ Cardinality(ToSet(font_sizes)) > MaxLevels
    /\ \E i \in 1..Len(result[1].outline) : \E j \in 1..Len(accepted) :
           /\ result[1].outline[i].level = "H6"
           /\ accepted[j].text = result[1].outline[i].text
           /\ accepted[j].font_size
                  < Take(SortDesc(ToSet(font_sizes)), MaxLevels)[MaxLevels]

(***************************************************************************)
(* Further claims on calculate_ml_relevance_score (SpecScore)              *)
(***************************************************************************)
\* C17: the relevance score is strictly greater than 0 for every persona,
\* known or unknown, every task description and every combination of the
\* vegetarian, gluten-free, dinner and buffet adjustments.
C17_ScorePositive == Scored => ret[1] > 0

\* a Food Contractor score to which all four adjustments applied
C17_Witness ==
    /\ Scored
    /\ args.persona = "Food Contractor"
    /\ VegetarianFactor(args.text, args.job_description) # 10
    /\ GlutenFreeFactor(args.text, args.job_description) # 10
    /\ DinnerFactor(args.text, args.job_description) # 10
    /\ BuffetFactor(args.text, args.job_description) # 10
    /\ ret[1] > 0

(***************************************************************************)
(* Claims on the two passes of extract_outline (Spec)                      *)
(***************************************************************************)
\* the sizes of the pages taken in the order ord, and their average
SizesInOrder(doc, ord) ==
    Flatten([k \in 1..Len(ord) |-> PageSizes(doc.pages[ord[k]])])

AverageOf(sizes) == <<SumSeq(sizes), Len(sizes)>>

\* the lines of the document with their 0-based page numbers
AllLines(doc) ==
    Flatten([q \in 1..Len(doc.pages) |->
        [k \in 1..Len(PageLines(doc.pages[q])) |->
            [line |-> PageLines(doc.pages[q])[k], page_num |-> q - 1]]])

\* the outline the second pass builds over the first k lines against a
\* given average and list of sizes
RECURSIVE OutlineAgainst(_, _, _, _)
OutlineAgainst(lines, k, avg, sizes) ==
    IF k = 0 THEN <<>>
    ELSE ClassifyOne(OutlineAgainst(lines, k - 1, avg, sizes),
                     lines[k].line, lines[k].page_num, avg, sizes)

\* page orders other than first to last: last to first, and starting at the
\* second page
OtherPageOrders(n) ==
    {[k \in 1..n |-> n + 1 - k], [k \in 1..n |-> (k % n) + 1]}

NoSpanFails(doc) ==
    /\ doc.opens
    /\ \A i \in 1..Len(AllSpans(doc)) :
           {"size", "flags"} \subseteq DOMAIN AllSpans(doc)[i]

\* every span's size has been collected and the average computed
ProfileComplete ==
    /\ font_sizes = SizesInOrder(pdf, [k \in 1..Len(pdf.pages) |-> k])
    /\ avg_font_size = AverageOf(font_sizes)

\* C18: no heading decision is made against a partially built font profile:
\* the second pass runs, and a line is accepted, only when every span's size
\* has been collected and the average computed; nothing is decided during
\* the first pass; and the outline returned is the one the second pass
\* builds against the sizes collected in any other page order.
C18_CollectBeforeClassify ==
    /\ pc \in {"open", "title", "pass1"} => accepted = <<>> /\ outline = <<>>
    /\ (pc = "pass2" \/ accepted # <<>>) => ProfileComplete
    /\ (pc = "done" /\ NoSpanFails(pdf) /\ ~ZeroFragments(pdf)) =>
           \A ord \in OtherPageOrders(Len(pdf.pages)) :
               LET sizes == SizesInOrder(pdf, ord)
               IN  result[1].outline =
                       OutlineAgainst(AllLines(pdf), Len(AllLines(pdf)),
                                      AverageOf(sizes), sizes)

\* a returned outline with a first-page heading whose level differs from
\* the one the first page's sizes alone would give
C18_Witness ==
    /\ pc = "done" /\ NoSpanFails(pdf) /\ Len(pdf.pages) > 1
    /\ \E j \in 1..Len(accepted) :
           /\ accepted[j].page = 1
           /\ accepted[j].level #
                  determine_heading_level(accepted[j].font_size,
                                          PageSizes(pdf.pages[1]))
           /\ \E i \in 1..Len(result[1].outline) :
                  /\ result[1].outline[i].text = accepted[j].text
                  /\ result[1].outline[i].level = accepted[j].level

(***************************************************************************)
(* Claims on extract_sections (SpecSections)                               *)
(***************************************************************************)
SectionsEnded == sections_pc \in {"done", "raised"}

ReadFails(doc) == extract_text_with_structure(doc).raised

\* the sections the call hands to its caller for the document
ProducedFor(doc) ==
    LET OfDoc(section) == section.document = doc.filename
    IN  IF ret # <<>> THEN SelectSeq(ret[1], OfDoc) ELSE <<>>

\* the sections of the document processed on its own
AloneSections(doc) ==
    LET alone == extract_sections(<<doc>>, args.persona, args.job_description)
    IN  IF alone.raised THEN <<>> ELSE alone.sections

\* C13: when a document of the batch is malformed or unreadable, the call of
\* extract_sections still returns, and every other document contributes the
\* sections it has.
C13_DocumentFailureDoesNotAbortBatch ==
    (SectionsEnded /\ \E i \in 1..Len(args.documents) :
                          ReadFails(args.documents[i]))
        => /\ sections_pc = "done"
           /\ \A i \in 1..Len(args.documents) :
                  ~ReadFails(args.documents[i])
                      => ProducedFor(args.documents[i])
                             = AloneSections(args.documents[i])

\* C19: the sections produced for a document do not depend on the documents
\* that precede it in the batch (the document and those after it being
\* readable).
C19_SectionsIndependentOfPredecessors ==
    SectionsEnded
        => \A i \in 1..Len(args.documents) :
               (\A j \in i..Len(args.documents) : ~ReadFails(args.documents[j]))
                   => ProducedFor(args.documents[i])
                          = AloneSections(args.documents[i])

\* the items of the document of that name in the batch
ItemsOf(filename) ==
    LET doc == CHOOSE d \in {args.documents[i] : i \in 1..Len(args.documents)} :
                   d.filename = filename
    IN  extract_text_with_structure(doc).items

\* a boundary item directly followed by a boundary item or by the end of
\* its document
BareBoundary(items, b) ==
    /\ IsBoundary(items[b])
    /\ b = Len(items) \/ IsBoundary(items[b + 1])

\* C20: every emitted section has at least one body line, and a boundary line
\* directly followed by another boundary line or by the end of the stream
\* has produced no section.
C20_NoSectionWithoutBody ==
    /\ \A k \in 1..Len(all_sections) :
           LET items == ItemsOf(all_sections[k].document)
           IN  /\ all_sections[k].content # ""
               /\ \E b \in 1..(Len(items) - 1) :
                      /\ IsBoundary(items[b])
                      /\ items[b].text = all_sections[k].section_title
                      /\ ~IsBoundary(items[b + 1])
    /\ \A i \in 1..Len(args.documents) :
           (i < doc_num /\ ~ReadFails(args.documents[i]))
               => LET items == ItemsOf(args.documents[i].filename)
                  IN  \A b \in 1..Len(items) :
                          BareBoundary(items, b)
                              => \A k \in 1..Len(all_sections) :
                                     ~ /\ all_sections[k].document
                                              = args.documents[i].filename
                                       /\ all_sections[k].section_title
                                              = items[b].text

\* a batch has been segmented in which boundary lines follow one another and
\* end a document, and another document gave a section
C20_Witness ==
    /\ sections_pc = "done"
    /\ ret[1] # <<>>
    /\ \E i \in 1..Len(args.documents) :
           LET items == ItemsOf(args.documents[i].filename)
           IN  /\ \E b \in 1..(Len(items) - 1) : BareBoundary(items, b)
               /\ BareBoundary(items, Len(items))
               /\ items # <<>>

\* the documents of the batch whose segmentation is over
SegmentedDocuments ==
    {i \in 1..Len(args.documents) :
        i < doc_num /\ ~ReadFails(args.documents[i])}

\* the lines that follow the boundary at b up to the next boundary or the
\* end of the document, as indices
BodyLines(items, b) ==
    {j \in (b + 1)..Len(items) :
        \A m \in (b + 1)..j : ~IsBoundary(items[m])}

\* the texts of those lines, in order, joined by single spaces
BodyText(items, b) ==
    Join([n \in 1..Cardinality(BodyLines(items, b)) |-> items[b + n].text],
         " ")

\* C21: every emitted section has as title the text of a boundary line of
\* its document, as content the non-boundary lines that follow that boundary
\* up to the next boundary or the end of the document, in order and joined
\* by single spaces, and as page the page of the first of those lines.
C21_SectionIsBoundaryAndItsBody ==
    \A k \in 1..Len(all_sections) :
        LET items == ItemsOf(all_sections[k].document)
        IN  \E b \in 1..Len(items) :
                /\ IsBoundary(items[b])
                /\ all_sections[k].section_title = items[b].text
                /\ BodyLines(items, b) # {}
                /\ all_sections[k].content = BodyText(items, b)
                /\ all_sections[k].page_number = items[b + 1].page

\* the call has returned a section whose body runs over two pages and was
\* closed by a boundary, and a section closed by the end of its document
C21_Witness ==
    /\ sections_pc = "done"
    /\ \E k \in 1..Len(ret[1]) :
           LET items == ItemsOf(ret[1][k].document)
           IN  \E b \in 1..Len(items) :
                   /\ IsBoundary(items[b])
                   /\ ret[1][k].section_title = items[b].text
                   /\ \E j \in BodyLines(items, b) :
                          items[j].page # items[b + 1].page
                   /\ \E m \in (b + 1)..Len(items) : IsBoundary(items[m])
    /\ \E k \in 1..Len(ret[1]) :
           LET items == ItemsOf(ret[1][k].document)
           IN  \E b \in 1..Len(items) :
                   /\ IsBoundary(items[b])
                   /\ ret[1][k].section_title = items[b].text
                   /\ Len(items) \in BodyLines(items, b)

\* the lines of a document that precede its first boundary, as indices
Preamble(items) ==
    {j \in 1..Len(items) : \A m \in 1..j : ~IsBoundary(items[m])}

\* C26: no line that precedes the first boundary of its document is in the
\* content of an emitted section, and a document without a boundary has no
\* section.
C26_PreambleDiscarded ==
    /\ \A k \in 1..Len(all_sections) :
           LET items == ItemsOf(all_sections[k].document)
           IN  \A j \in Preamble(items) :
                   ~Contains(all_sections[k].content, items[j].text)
    /\ \A i \in SegmentedDocuments :
           LET items == ItemsOf(args.documents[i].filename)
           IN  (Preamble(items) = 1..Len(items))
                   => \A k \in 1..Len(all_sections) :
                          all_sections[k].document
                              # args.documents[i].filename

\* the call has returned sections, a document of the batch has lines before
\* its first boundary and a section, another has lines and no boundary
C26_Witness ==
    /\ sections_pc = "done"
    /\ \E k \in 1..Len(ret[1]) :
           LET items == ItemsOf(ret[1][k].document)
           IN  Preamble(items) # {} /\ Preamble(items) # 1..Len(items)
    /\ \E i \in SegmentedDocuments :
           LET items == ItemsOf(args.documents[i].filename)
           IN  items # <<>> /\ Preamble(items) = 1..Len(items)

\* the boundaries of a document that have a body
Candidates(items) ==
    {b \in 1..Len(items) : IsBoundary(items[b]) /\ BodyLines(items, b) # {}}

\* the score extract_sections computes for the section of the boundary at b
CandidateScore(items, b) ==
    calculate_ml_relevance_score(items[b].text \o " " \o BodyText(items, b),
                                 args.persona, args.job_description)

\* the emitted sections of that boundary, as indices of all_sections
EmittedFor(filename, items, b) ==
    {k \in 1..Len(all_sections) :
        /\ all_sections[k].document = filename
        /\ all_sections[k].section_title = items[b].text
        /\ all_sections[k].content = BodyText(items, b)}

\* C27: every emitted section has a score above 0.1; of the sections with a
\* title and a body those, and only those, whose score is above 0.1 are
\* emitted, with that score; for an unknown persona each of them is emitted
\* with the score 1.0.
C27_EmittedAboveFloor ==
    /\ \A k \in 1..Len(all_sections) :
           all_sections[k].relevance_score > 10000
    /\ \A i \in SegmentedDocuments :
           LET filename == args.documents[i].filename
               items == ItemsOf(filename)
           IN  \A b \in Candidates(items) :
                   \A score \in {CandidateScore(items, b)} :
                       /\ (EmittedFor(filename, items, b) # {})
                              <=> (score > 10000)
                       /\ \A k \in EmittedFor(filename, items, b) :
                              all_sections[k].relevance_score = score
                       /\ args.persona \notin KnownPersonas
                              => /\ score = 100000
                                 /\ EmittedFor(filename, items, b) # {}

\* the call has returned for a known persona: a section with a title and a
\* body scored exactly 0.1 and is missing, another is emitted
C27_Witness ==
    /\ sections_pc = "done"
    /\ args.persona \in KnownPersonas
    /\ ret[1] # <<>>
    /\ \E i \in SegmentedDocuments :
           LET filename == args.documents[i].filename
               items == ItemsOf(filename)
           IN  \E b \in Candidates(items) :
                   /\ CandidateScore(items, b) = 10000
                   /\ EmittedFor(filename, items, b) = {}

(***************************************************************************)
(* Claims on main and process_collection (SpecMain)                        *)
(***************************************************************************)
MainEnded == collection_num = Len(CollectionNames) + 1

\* the outputs written for the c-th collection, as indices of outputs
OutputsOf(c) ==
    {i \in 1..Len(outputs) : outputs[i].collection = CollectionNames[c]}

\* the directory a written output belongs to
DirectoryOf(output) ==
    collections[CHOOSE c \in 1..Len(CollectionNames) :
                    CollectionNames[c] = output.collection]

\* the configuration is there but has no persona role or no task
LacksPersonaOrTask(dir) ==
    /\ dir.exists
    /\ \/ "persona" \notin DOMAIN dir.input_data
       \/ "role" \notin DOMAIN dir.input_data.persona
       \/ "job_to_be_done" \notin DOMAIN dir.input_data
       \/ "task" \notin DOMAIN dir.input_data.job_to_be_done

\* a directory with a complete configuration whose documents can be read
Healthy(dir) ==
    /\ dir.exists
    /\ ConfigurationComplete(dir.input_data)
    /\ \A i \in 1..Len(dir.input_data.documents) :
           ~ReadFails(dir.input_data.documents[i])

\* C14: a collection whose configuration lacks the persona or the task is
\* logged and gets no output, main goes on and every later healthy
\* collection gets its output; no collection is visited twice: a collection
\* has at most one output, and none before its turn.
C14_MisconfiguredCollectionSkipped ==
    /\ \A c \in 1..Len(CollectionNames) :
           (c < collection_num /\ LacksPersonaOrTask(collections[c]))
               => /\ CollectionNames[c] \in errors
                  /\ OutputsOf(c) = {}
                  /\ MainEnded
                         => \A d \in (c + 1)..Len(CollectionNames) :
                                Healthy(collections[d])
                                    => Cardinality(OutputsOf(d)) = 1
    /\ \A c \in 1..Len(CollectionNames) :
           /\ Cardinality(OutputsOf(c)) <= 1
           /\ c >= collection_num
                  => OutputsOf(c) = {} /\ CollectionNames[c] \notin errors

\* main has ended, a collection without persona or task was followed by a
\* healthy one, and the healthy one has its output
C14_Witness ==
    /\ MainEnded
    /\ \E c, d \in 1..Len(CollectionNames) :
           /\ c < d
           /\ LacksPersonaOrTask(collections[c])
           /\ Healthy(collections[d])
           /\ OutputsOf(d) # {}

\* the sections extract_sections emits for the collection of a directory
EmittedSections(dir) ==
    extract_sections(dir.input_data.documents, dir.input_data.persona.role,
                     dir.input_data.job_to_be_done.task).sections

\* the output written by the step that led to this state, if it wrote one
JustWritten ==
    {i \in 1..Len(outputs) :
        /\ i = Len(outputs)
        /\ collection_num > 1
        /\ outputs[i].collection = CollectionNames[collection_num - 1]}

\* C15: in an output written, extracted_sections and subsection_analysis
\* have k = min(10, number of emitted sections) entries, the importance_rank
\* values are 1..k in list order, and the entry of rank r in both lists is
\* the emitted section whose place in the descending order of scores is r.
C15_DenseRanking ==
    \A i \in JustWritten :
        \A emitted \in {EmittedSections(DirectoryOf(outputs[i]))} :
            LET extracted_sections == outputs[i].output_data.extracted_sections
                subsection_analysis ==
                    outputs[i].output_data.subsection_analysis
                k == IF Len(emitted) < DefaultLimit THEN Len(emitted)
                     ELSE DefaultLimit
            IN  /\ Len(extracted_sections) = k
                /\ Len(subsection_analysis) = k
                /\ \A r \in 1..k : extracted_sections[r].importance_rank = r
                /\ \A j \in 1..Len(emitted) :
                       \A r \in {Place(emitted, j)} :
                           r <= k =>
                             /\ extracted_sections[r] =
                                  [document |-> emitted[j].document,
                                   section_title |-> emitted[j].section_title,
                                   importance_rank |-> r,
                                   page_number |-> emitted[j].page_number]
                             /\ subsection_analysis[r].document
                                    = emitted[j].document
                             /\ subsection_analysis[r].page_number
                                    = emitted[j].page_number
                             /\ Take(subsection_analysis[r].refined_text,
                                     Len(emitted[j].content))
                                    = emitted[j].content

\* an output has just been written for a collection that emitted more
\* sections than the limit, two of them of equal score, and an earlier
\* output has fewer entries than the limit
C15_Witness ==
    /\ \E i \in JustWritten :
           /\ Len(outputs[i].output_data.extracted_sections) = DefaultLimit
           /\ \E emitted \in {EmittedSections(DirectoryOf(outputs[i]))} :
                  /\ Len(emitted) > DefaultLimit
                  /\ \E a, b \in 1..Len(emitted) :
                         /\ a < b
                         /\ emitted[a].relevance_score
                                = emitted[b].relevance_score
                         /\ Place(emitted, a) <= DefaultLimit
    /\ \E i \in 1..Len(outputs) :
           Len(outputs[i].output_data.extracted_sections) \in
               2..(DefaultLimit - 1)

\* C25: a collection that yields zero sections is processed without error:
\* its output has empty extracted_sections and subsection_analysis, and its
\* refined_text summary is the sentinel "No relevant content found.".
C25_ZeroSectionsGiveSentinel ==
    \A i \in JustWritten :
        \A emitted \in {EmittedSections(DirectoryOf(outputs[i]))} :
            emitted = <<>> =>
                /\ outputs[i].collection \notin errors
                /\ outputs[i].output_data.extracted_sections = <<>>
                /\ outputs[i].output_data.subsection_analysis = <<>>
                /\ outputs[i].output_data.refined_text
                       = "No relevant content found."

\* what holds of the code: the summary begins with the sentinel
C25_SentinelIsPrefix ==
    \A i \in JustWritten :
        \A emitted \in {EmittedSections(DirectoryOf(outputs[i]))} :
            emitted = <<>> =>
                /\ outputs[i].collection \notin errors
                /\ outputs[i].output_data.extracted_sections = <<>>
                /\ outputs[i].output_data.subsection_analysis = <<>>
                /\ Take(outputs[i].output_data.refined_text, 26)
                       = "No relevant content found."
                /\ Len(outputs[i].output_data.refined_text) > 26

====
